---- MODULE Spec2Model ----
(***************************************************************************)
(* PsyArXiv harvest / ingest synchronisation engine.                       *)
(*                                                                         *)
(* Three state machines over one store:                                    *)
(*   SpecHarvest  osf/harvester.py harvest_preprints and tools/fix_gaps.py *)
(*                over a fixed upstream collection;                        *)
(*   SpecIngest   osf/ingestor.py process_all_new_preprints with its two   *)
(*                reconciliation passes, scripts/ingest.py --force, and    *)
(*                the two reset operations.                                *)
(*                                                                         *)
(* Timestamps are ISO-8601 strings in the source.  Here a timestamp is a   *)
(* number of ticks, TicksPerSecond ticks to the second; a timestamp whose  *)
(* tick count is not a multiple of TicksPerSecond is one that carries      *)
(* fractional seconds.  For strings of that one format the string order    *)
(* SQLite uses is the order of the tick counts.                            *)
(* Ids are strings in the source; here they are sequences of one-character *)
(* strings so that LIKE, INSTR and SUBSTR can be computed on them.         *)
(***************************************************************************)
EXTENDS Integers, Sequences, FiniteSets, TLC

VARIABLES
    upstream,   \* the remote collection: documents in the server's date_modified order
    raw_data,   \* table raw_data, in rowid order
    now,        \* wall clock: the number of harvest / gap-fill runs started
    harvest,    \* locals of harvest_preprints (and its position)
    hist,       \* history of the harvest side, read only by properties
    norm,       \* the normalized tables, as the connection sees them
    committed,  \* the normalized tables as of the last commit
    ingest,     \* locals of process_all_new_preprints (and its position)
    preprints_ui, \* table preprints_ui, the denormalized view
    tool        \* locals of the maintenance command that is running

vars == <<upstream, raw_data, now, harvest, hist, norm, committed, ingest,
          preprints_ui, tool>>

(***************************************************************************)
(* Bounds of the model                                                     *)
(***************************************************************************)
MaxDocs == 3          \* documents in the upstream collection
MaxTime == 5          \* largest timestamp, in ticks
TicksPerSecond == 2   \* resolution of a timestamp below one second
PageSize == 2         \* documents per page (page[size] of the request)
MaxRuns == 3          \* harvest and gap-fill runs in one behaviour
MaxGapTicks == 2      \* largest gap threshold handed to detect_gaps
MaxLimit == 2         \* largest --limit handed to a run
MaxFailures == 2      \* failed requests of one harvest run
StepBackSeconds == 1  \* the six hours of a step back, in seconds of the model

NULL == 0 - 1         \* Python None / SQL NULL
NoTool == [name |-> "none"]   \* no maintenance command is running
NoId == << >>         \* a document without an id (None or the empty string)

Digits == <<"1", "2", "3", "4", "5", "6", "7", "8", "9">>
DocId(i) == <<"d", Digits[i]>>

Min(a, b) == IF a < b THEN a ELSE b
Max(a, b) == IF a > b THEN a ELSE b

(***************************************************************************)
(* Timestamps                                                              *)
(***************************************************************************)
\* date_str.split('.')[0] : drop the fractional seconds
StripFraction(t) == (t \div TicksPerSecond) * TicksPerSecond

(***************************************************************************)
(* The remote source (external): a greater-than filter on date_modified,   *)
(* ascending date_modified order, pages of PageSize, a next link while     *)
(* documents remain.                                                       *)
(***************************************************************************)
RECURSIVE FilterGt(_, _)
FilterGt(docs, gt) ==
    IF docs = << >> THEN << >>
    ELSE IF gt = NULL \/ Head(docs).attributes.date_modified > gt
         THEN <<Head(docs)>> \o FilterGt(Tail(docs), gt)
         ELSE FilterGt(Tail(docs), gt)

\* a URL built without the date_modified filter
BuildUnfiltered(from_date) == [gt |-> NULL, page |-> 1]

\* build_api_url: the parts of the URL that vary are the date_modified filter
\* (absent when from_date is None) and, in a next link, the page
build_api_url(from_date) == [gt |-> from_date, page |-> 1]
NoUrl == [gt |-> NULL, page |-> 0]   \* no next link

ResponseData(u) ==
    LET m == FilterGt(upstream, u.gt)
    IN  SubSeq(m, (u.page - 1) * PageSize + 1, Min(u.page * PageSize, Len(m)))

ResponseNext(u) ==
    IF Len(FilterGt(upstream, u.gt)) > u.page * PageSize
    THEN [gt |-> u.gt, page |-> u.page + 1]
    ELSE NoUrl

(***************************************************************************)
(* Raw Store                                                               *)
(***************************************************************************)
\* the row save_preprint writes: payload is the whole document
RawRow(doc, at) ==
    [id |-> doc.id, date_modified |-> doc.attributes.date_modified,
     payload |-> doc, fetch_date |-> at]

HasId(t, id) == \E i \in 1..Len(t) : t[i].id = id

\* INSERT of a row whose id the table does not hold
InsertRow(t, row) == Append(t, row)

\* a save that never looks for the row of the id
AppendAlways(t, row) == t \o <<row>>

\* sqlite-utils upsert(..., pk="id"): replace the row with that id, or add it
UpsertRow(t, row) ==
    IF HasId(t, row.id)
    THEN [i \in 1..Len(t) |-> IF t[i].id = row.id THEN row ELSE t[i]]
    ELSE Append(t, row)

\* a save that reports success for every document
SaveAlwaysOk(doc) == TRUE

\* save_preprint: FALSE (nothing stored) for a document without an id, and
\* for a document whose upsert raises (attributes.kind "unsavable": an id
\* SQLite cannot bind)
SaveOk(doc) == doc.id # NoId /\ doc.attributes.kind # "unsavable"
save_preprint(t, doc, at) ==
    IF SaveOk(doc) THEN UpsertRow(t, RawRow(doc, at)) ELSE t

RawIds(t) == {t[i].id : i \in 1..Len(t)}
RawDates(t) == {t[i].date_modified : i \in 1..Len(t)} \ {NULL}
SetMax(S) == CHOOSE x \in S : \A y \in S : y <= x

\* the resume point as the Raw Store holds it
MaxDateModified(t) == IF RawDates(t) = {} THEN NULL ELSE SetMax(RawDates(t))

\* get_most_recent_modified_date
get_most_recent_modified_date(t) ==
    IF RawDates(t) = {} THEN NULL ELSE StripFraction(SetMax(RawDates(t)))

(***************************************************************************)
(* harvest_preprints                                                       *)
(***************************************************************************)
\* the for loop over one page of harvest_preprints, with its break on the limit
RECURSIVE ProcessPage(_, _, _)
ProcessPage(docs, lim, st) ==
    IF docs = << >> THEN st
    ELSE LET d  == Head(docs)
             ok == SaveOk(d)
             st1 == [raw |-> save_preprint(st.raw, d, now),
                     preprint_count |-> st.preprint_count + 1,
                     saved_count |-> st.saved_count + (IF ok THEN 1 ELSE 0),
                     last_processed_date |->
                         IF ok THEN d.attributes.date_modified
                         ELSE st.last_processed_date,
                     saved |-> IF ok THEN Append(st.saved, d) ELSE st.saved]
         IN  IF lim # NULL /\ lim # 0 /\ st1.preprint_count >= lim
             THEN st1
             ELSE ProcessPage(Tail(docs), lim, st1)

HarvestIdle ==
    [pc |-> "idle", url |-> NoUrl, from_date |-> NULL, limit |-> NULL,
     preprint_count |-> 0, saved_count |-> 0, requests |-> 0,
     failures |-> 0, not_found |-> FALSE, down |-> FALSE,
     resume |-> NULL, ret |-> NULL]

\* a loop condition that does not look at the limit
LoopWhileUrl == harvest.url # NoUrl

\* while url and (limit is None or preprint_count < limit)
LoopCondition ==
    /\ harvest.url # NoUrl
    /\ (harvest.limit = NULL \/ harvest.preprint_count < harvest.limit)

\* harvest_preprints, entry: the resume point and the first URL
HarvestStart(lim) ==
    /\ tool = NoTool
    /\ harvest.pc # "loop"
    /\ ingest.pc = "idle"
    /\ now < MaxRuns
    /\ now' = now + 1
    /\ LET from_date == get_most_recent_modified_date(raw_data)
       IN  harvest' = [HarvestIdle EXCEPT !.pc = "loop",
                                          !.url = build_api_url(from_date),
                                          !.from_date = from_date,
                                          !.resume = from_date,
                                          !.limit = lim]
    /\ hist' = [hist EXCEPT !.after_complete = hist.last_complete,
                            !.last_saved = << >>]
    /\ UNCHANGED <<upstream, raw_data, norm, committed, ingest, preprints_ui, tool>>

\* harvest_preprints, one iteration of the while loop whose request succeeds
HarvestFetch ==
    /\ harvest.pc = "loop"
    /\ LoopCondition
    /\ ~harvest.down
    /\ LET data == ResponseData(harvest.url)
           st == ProcessPage(data, harvest.limit,
                             [raw |-> raw_data,
                              preprint_count |-> harvest.preprint_count,
                              saved_count |-> harvest.saved_count,
                              last_processed_date |-> NULL,
                              saved |-> << >>])
           from_date == IF st.last_processed_date # NULL
                        THEN st.last_processed_date ELSE harvest.from_date
           next_url == ResponseNext(harvest.url)
           url == IF next_url # NoUrl /\ st.last_processed_date # NULL
                  THEN build_api_url(from_date) ELSE next_url
       IN  /\ raw_data' = st.raw
           /\ harvest' = [harvest EXCEPT !.url = url,
                                         !.from_date = from_date,
                                         !.preprint_count = st.preprint_count,
                                         !.saved_count = st.saved_count,
                                         !.requests = harvest.requests + 1]
           /\ hist' = [hist EXCEPT !.last_saved = st.saved,
                                   !.resaved = hist.resaved \/
                                       \E i \in 1..Len(st.saved) :
                                           HasId(raw_data, st.saved[i].id),
                                   !.saved_ids = hist.saved_ids \cup
                                       {st.saved[i].id : i \in 1..Len(st.saved)}]
    /\ UNCHANGED <<upstream, now, norm, committed, ingest, preprints_ui, tool>>

\* "404" in str(e): the text of the exception holds the status of the
\* response, when there is one, and the URL of the request
Has404(not_found, text404) == not_found \/ text404

\* a handler that leaves from_date where it is
SameDate(from_date) == from_date

\* from_date six hours earlier, as strftime('%Y-%m-%dT%H:%M:%S') writes it
EarlierDate(from_date) ==
    StripFraction(from_date - StepBackSeconds * TicksPerSecond)

\* harvest_preprints, one iteration of the while loop whose request raises a
\* RequestException: not_found when the response status is 404, text404
\* when the text of another failure holds "404"
HarvestFail(not_found, text404) ==
    /\ harvest.pc = "loop"
    /\ LoopCondition
    /\ harvest.failures < MaxFailures
    /\ ~harvest.down
    /\ not_found => ~text404
    /\ LET steps_back == Has404(not_found, text404) /\ harvest.from_date # NULL
           from_date == IF steps_back THEN EarlierDate(harvest.from_date)
                        ELSE harvest.from_date
       IN  harvest' = [harvest EXCEPT
                          !.from_date = from_date,
                          !.url = IF steps_back THEN build_api_url(from_date) ELSE @,
                          !.requests = @ + 1,
                          !.failures = @ + 1,
                          !.not_found = not_found]
    /\ UNCHANGED <<upstream, raw_data, now, hist, norm, committed, ingest,
                   preprints_ui, tool>>

\* the remote source stops answering for good: from here on every request
\* of the run fails (a connection error, a timeout)
RemoteDown ==
    /\ harvest.pc = "loop"
    /\ ~harvest.down
    /\ harvest' = [harvest EXCEPT !.down = TRUE]
    /\ UNCHANGED <<upstream, raw_data, now, hist, norm, committed, ingest,
                   preprints_ui, tool>>

\* harvest_preprints, one iteration of the while loop against a source that
\* is down: the handler logs, sleeps and goes on with the same URL.  The
\* counters stop at MaxFailures; from there on the iteration changes nothing.
HarvestFailDown ==
    /\ harvest.pc = "loop"
    /\ LoopCondition
    /\ harvest.down
    /\ harvest' = [harvest EXCEPT
                      !.requests = IF harvest.failures < MaxFailures THEN @ + 1 ELSE @,
                      !.failures = Min(@ + 1, MaxFailures),
                      !.not_found = FALSE]
    /\ UNCHANGED <<upstream, raw_data, now, hist, norm, committed, ingest,
                   preprints_ui, tool>>

\* harvest_preprints, exit of the while loop: return saved_count
HarvestReturn ==
    /\ harvest.pc = "loop"
    /\ ~LoopCondition
    /\ harvest' = [harvest EXCEPT !.pc = "done", !.ret = harvest.saved_count]
    /\ hist' = [hist EXCEPT !.last_complete = (harvest.limit = NULL)]
    /\ UNCHANGED <<upstream, raw_data, now, norm, committed, ingest, preprints_ui, tool>>

(***************************************************************************)
(* tools/fix_gaps.py                                                       *)
(***************************************************************************)
\* SELECT date_modified FROM raw_data WHERE date_modified IS NOT NULL
\* ORDER BY date_modified: one entry per row
RECURSIVE OrderDates(_, _)
OrderDates(t, S) ==
    IF S = {} THEN << >>
    ELSE LET i == CHOOSE k \in S : \A j \in S :
                      \/ t[k].date_modified < t[j].date_modified
                      \/ (t[k].date_modified = t[j].date_modified /\ k <= j)
         IN  <<t[i].date_modified>> \o OrderDates(t, S \ {i})

StoredDates(t) == OrderDates(t, {i \in 1..Len(t) : t[i].date_modified # NULL})

\* a comparison that also reports a gap of exactly the threshold
GapAtLeast(gap, max_gap) == gap >= max_gap

\* "if gap_hours > max_gap_hours"
IsGap(gap, max_gap) == gap > max_gap

\* the for loop of detect_gaps from row i on: (prev_date, current_date, gap)
RECURSIVE DetectLoop(_, _, _)
DetectLoop(results, i, max_gap) ==
    IF i > Len(results) THEN << >>
    ELSE (IF IsGap(results[i] - results[i - 1], max_gap)
          THEN <<<<results[i - 1], results[i], results[i] - results[i - 1]>>>>
          ELSE << >>) \o DetectLoop(results, i + 1, max_gap)

\* detect_gaps
detect_gaps(t, max_gap) ==
    IF Len(StoredDates(t)) < 2 THEN << >>
    ELSE DetectLoop(StoredDates(t), 2, max_gap)

\* a loop over one page that saves every dated document, whatever its date
RECURSIVE RangePageNoStop(_, _, _)
RangePageNoStop(docs, end_dt, st) ==
    IF docs = << >> THEN st
    ELSE RangePageNoStop(Tail(docs), end_dt,
             [st EXCEPT !.raw = save_preprint(st.raw, Head(docs), now),
                        !.saved = IF SaveOk(Head(docs)) THEN Append(st.saved, Head(docs))
                                  ELSE st.saved])

\* the for loop over one page of harvest_date_range; stop at the first
\* document later than end_dt
RECURSIVE RangePage(_, _, _)
RangePage(docs, end_dt, st) ==
    IF docs = << >> THEN st
    ELSE LET d == Head(docs)
         IN  IF d.attributes.date_modified = NULL
             THEN RangePage(Tail(docs), end_dt, st)
             ELSE IF d.attributes.date_modified > end_dt
             THEN [st EXCEPT !.stop = TRUE]
             ELSE RangePage(Tail(docs), end_dt,
                     [st EXCEPT !.raw = save_preprint(st.raw, d, now),
                                !.saved = IF SaveOk(d) THEN Append(st.saved, d)
                                          ELSE st.saved])

\* the while loop of harvest_date_range: follow the next links
RECURSIVE RangeLoop(_, _, _)
RangeLoop(u, end_dt, st) ==
    IF u = NoUrl THEN st
    ELSE LET st1 == RangePage(ResponseData(u), end_dt,
                              [st EXCEPT !.requests = st.requests + 1])
         IN  IF st1.stop THEN st1 ELSE RangeLoop(ResponseNext(u), end_dt, st1)

\* harvest_date_range(start_date, end_date) on the table raw
harvest_date_range(raw, start_date, end_date) ==
    RangeLoop(build_api_url(start_date), end_date,
              [raw |-> raw, stop |-> FALSE, saved |-> << >>, requests |-> 0])

\* fill_gap(start_date, end_date): both ends formatted with
\* strftime('%Y-%m-%dT%H:%M:%S'), then harvest_date_range
fill_gap(raw, g) ==
    harvest_date_range(raw, StripFraction(g[1]), StripFraction(g[2]))

NoFill == [start |-> NULL, end |-> NULL, t1 |-> NULL, t2 |-> NULL,
           saved |-> << >>, requests |-> 0, stop |-> FALSE, before |-> {}]

\* tools/fix_gaps.py main, without --dry-run: gaps = detect_gaps(...)
GapStart(max_gap) ==
    /\ tool = NoTool
    /\ harvest.pc # "loop"
    /\ ingest.pc = "idle"
    /\ now < MaxRuns
    /\ now' = now + 1
    /\ tool' = [name |-> "fix_gaps", max_gap |-> max_gap,
                gaps |-> detect_gaps(raw_data, max_gap), idx |-> 1,
                last |-> NoFill]
    /\ hist' = [hist EXCEPT !.last_complete = FALSE, !.last_saved = << >>]
    /\ UNCHANGED <<upstream, raw_data, harvest, norm, committed, ingest, preprints_ui>>

\* main: one iteration of "for ... in enumerate(gaps, 1): fill_gap(...)"
GapFillOne ==
    /\ tool.name = "fix_gaps"
    /\ tool.idx <= Len(tool.gaps)
    /\ LET g == tool.gaps[tool.idx]
           st == fill_gap(raw_data, g)
       IN  /\ raw_data' = st.raw
           /\ tool' = [tool EXCEPT
                          !.idx = tool.idx + 1,
                          !.last = [start |-> StripFraction(g[1]),
                                    end |-> StripFraction(g[2]),
                                    t1 |-> g[1], t2 |-> g[2],
                                    saved |-> st.saved, requests |-> st.requests,
                                    stop |-> st.stop, before |-> RawIds(raw_data)]]
           /\ hist' = [hist EXCEPT !.last_saved = st.saved,
                                   !.resaved = hist.resaved \/
                                       \E i \in 1..Len(st.saved) :
                                           HasId(raw_data, st.saved[i].id),
                                   !.saved_ids = hist.saved_ids \cup
                                       {st.saved[i].id : i \in 1..Len(st.saved)}]
    /\ UNCHANGED <<upstream, now, harvest, norm, committed, ingest, preprints_ui>>

\* main: "No gaps detected!" or the end of the loop; return 0
GapReturn ==
    /\ tool.name = "fix_gaps"
    /\ tool.idx > Len(tool.gaps)
    /\ tool' = NoTool
    /\ hist' = [hist EXCEPT !.last_saved = << >>]
    /\ UNCHANGED <<upstream, raw_data, now, harvest, norm, committed, ingest, preprints_ui>>

\* a count that takes in every dated document of the page
AnyDate(dm, start_date, end_date) == TRUE

\* "if start_date <= preprint_date <= end_date", on the datetimes of the gap
InRange(dm, start_date, end_date) == start_date <= dm /\ dm <= end_date

\* fill_gap(start_date, end_date, dry_run=True), the request succeeding:
\* total_count over the documents of the first page
RECURSIVE DryCount(_, _, _)
DryCount(docs, start_date, end_date) ==
    IF docs = << >> THEN 0
    ELSE (IF Head(docs).attributes.date_modified # NULL
             /\ InRange(Head(docs).attributes.date_modified, start_date, end_date)
          THEN 1 ELSE 0) + DryCount(Tail(docs), start_date, end_date)

\* tools/fix_gaps.py main with --dry-run: gaps = detect_gaps(...)
GapDryStart(max_gap) ==
    /\ tool = NoTool
    /\ harvest.pc # "loop"
    /\ ingest.pc = "idle"
    /\ now < MaxRuns
    /\ now' = now + 1
    /\ tool' = [name |-> "fix_gaps_dry_run", max_gap |-> max_gap,
                gaps |-> detect_gaps(raw_data, max_gap), idx |-> 1,
                url |-> NoUrl, requests |-> 0, failed |-> FALSE, total_count |-> 0]
    /\ UNCHANGED <<upstream, raw_data, harvest, hist, norm, committed, ingest,
                   preprints_ui>>

\* main: one iteration of the loop over the gaps with dry_run: one request
\* for build_api_url(start_str), which fails or answers with the first page
GapDryOne(fails) ==
    /\ tool.name = "fix_gaps_dry_run"
    /\ tool.idx <= Len(tool.gaps)
    /\ LET g == tool.gaps[tool.idx]
           url == build_api_url(StripFraction(g[1]))
       IN  tool' = [tool EXCEPT
                       !.idx = tool.idx + 1,
                       !.url = url,
                       !.requests = 1,
                       !.failed = fails,
                       !.total_count = IF fails THEN 0
                                       ELSE DryCount(ResponseData(url), g[1], g[2])]
    /\ UNCHANGED <<upstream, raw_data, now, harvest, hist, norm, committed, ingest,
                   preprints_ui>>

\* main with --dry-run: "No gaps detected!" or the end of the loop; return 0
GapDryReturn ==
    /\ tool.name = "fix_gaps_dry_run"
    /\ tool.idx > Len(tool.gaps)
    /\ tool' = NoTool
    /\ UNCHANGED <<upstream, raw_data, now, harvest, hist, norm, committed, ingest,
                   preprints_ui>>

(***************************************************************************)
(* Documents as the Normalization Engine reads them.  attributes.kind      *)
(* names the shape of the nested data of a payload:                        *)
(*   "plain"       no subjects, tags or contributors;                      *)
(*   "full"        one subject chain, one tag, one contributor;            *)
(*   "badsubject"  as "full", but attributes.subjects is a value that      *)
(*                 cannot be iterated (a number), so that                  *)
(*                 process_subjects_data raises;                           *)
(*   "badparent"   attributes the parent extraction cannot read, so that   *)
(*                 extract_preprint_data raises before the parent upsert.  *)
(*   "tagged"      no subjects or contributors, and a list of tag strings  *)
(*                 in attributes.tags.                                     *)
(*   "authored"    no subjects or tags, and a list of contributor entries  *)
(*                 in embeds.contributors.data.                            *)
(***************************************************************************)
Kinds == {"plain", "full", "badsubject", "badparent"}

Attributes(dm, ver, latest, kind) ==
    [date_modified |-> dm, version |-> ver, is_latest_version |-> latest,
     kind |-> kind]

HasNested(a) == a.kind \in {"full", "badsubject"}
SubjectsOf(a) == IF HasNested(a) THEN <<"s1">> ELSE << >>   \* one chain
\* attributes.tags: a "tagged" payload carries its own list of tag strings, a
\* string being a sequence of characters
TagStats == <<"S", "t", "a", "t", "s">>
TagsOf(a) ==
    IF a.kind = "tagged" THEN a.tags
    ELSE IF HasNested(a) THEN <<TagStats>> ELSE << >>
\* embeds.contributors.data: every contributor entry has the user id of its
\* relationships.users.data and the user id of its embeds.users.data, either
\* of which can be missing; an "authored" payload carries its own entries
NoUser == "none"
Contributor(rel, embed) == [rel |-> rel, embed |-> embed]
ContributorsOf(a) ==
    IF a.kind = "authored" THEN a.contributors
    ELSE IF HasNested(a) THEN <<Contributor("u1", "u1")>> ELSE << >>

(***************************************************************************)
(* SQL string functions of the base_id expression                          *)
(***************************************************************************)
Lower(c) == IF c = "V" THEN "v" ELSE c

\* id LIKE '%_v%' : '_' matches any one character, and LIKE ignores case
LikeAnyCharThenV(id) == \E i \in 2..Len(id) : Lower(id[i]) = "v"

\* INSTR(id, '_v') : 1-based position of the first '_v', 0 when there is none
Instr_v(id) ==
    LET hits == {i \in 1..(Len(id) - 1) : id[i] = "_" /\ id[i + 1] = "v"}
    IN  IF hits = {} THEN 0 ELSE CHOOSE i \in hits : \A j \in hits : i <= j

\* SUBSTR(id, 1, n) : n characters from the first; for negative n the
\* characters before the first, which are none
Substr1(id, n) == IF n > 0 THEN SubSeq(id, 1, Min(n, Len(id))) ELSE << >>

\* CASE WHEN id LIKE '%_v%' THEN SUBSTR(id, 1, INSTR(id, '_v') - 1) ELSE id END
SqlBaseId(id) ==
    IF LikeAnyCharThenV(id) THEN Substr1(id, Instr_v(id) - 1) ELSE id

(***************************************************************************)
(* Normalized tables.  preprints is kept in rowid order; the relationship  *)
(* and lookup tables are sets of rows.  Every table is taken to exist with *)
(* the columns process_preprint writes into it; transactions are atomic:   *)
(* what is written after the last commit is lost when the process dies.    *)
(***************************************************************************)
(***************************************************************************)
(* Tables and columns.  schema names how the tables of the store were      *)
(* made: "ingestor" when each has the columns process_preprint writes,     *)
(* "init_db" when they are the ones init_db creates.                       *)
(***************************************************************************)
\* extract_preprint_data: the keys of the parent row
ParentColumns ==
    {"id", "title", "description", "date_created", "date_modified",
     "date_published", "original_publication_date", "publication_doi",
     "preprint_doi", "download_url", "license", "is_published",
     "reviews_state", "version", "is_latest_version", "has_coi",
     "conflict_of_interest_statement", "has_data_links", "why_no_data",
     "data_links", "has_prereg_links", "why_no_prereg", "prereg_links",
     "prereg_link_info", "contributors", "subjects", "tags"}
SubjectColumns == {"id", "text", "parent_id"}
PreprintSubjectColumns == {"preprint_id", "subject_id", "is_latest_version"}
TagColumns == {"id", "tag_text", "use_count"}
PreprintTagColumns == {"preprint_id", "tag_id", "is_latest_version"}
ContributorColumns == {"osf_user_id", "full_name", "date_registered", "employment"}
PreprintContributorColumns ==
    {"preprint_id", "osf_user_id", "author_index", "bibliographic", "is_latest_version"}

\* the normalized tables init_db creates
InitDbTables ==
    [preprints |->
        {"id", "title", "description", "date_created", "date_modified",
         "date_published", "original_publication_date", "publication_doi",
         "provider", "is_published", "reviews_state", "version",
         "is_latest_version", "download_url", "preprint_doi", "license",
         "tags", "has_coi", "conflict_of_interest_statement",
         "has_data_links", "why_no_data", "data_links", "has_prereg_links",
         "why_no_prereg", "prereg_links", "prereg_link_info"},
     contributors |->
        {"id", "full_name", "given_name", "middle_names", "family_name",
         "suffix", "date_registered", "active", "timezone", "locale",
         "orcid", "github", "scholar", "profile_websites", "employment",
         "education", "profile_url"},
     preprint_contributors |->
        {"preprint_id", "contributor_id", "contributor_index", "bibliographic"},
     subjects |-> {"id", "text"},
     preprint_subjects |-> {"preprint_id", "subject_id"}]

\* the normalized tables with the columns the writes of process_preprint name
IngestorTables ==
    [preprints |-> ParentColumns,
     subjects |-> SubjectColumns,
     preprint_subjects |-> PreprintSubjectColumns,
     tags |-> TagColumns,
     preprint_tags |-> PreprintTagColumns,
     contributors |-> ContributorColumns,
     preprint_contributors |-> PreprintContributorColumns]

TablesOf(schema) == IF schema = "init_db" THEN InitDbTables ELSE IngestorTables

\* sqlite-utils upsert without alter: a missing table is created from the
\* record, a column the table does not have raises
UpsertFits(tables, table, cols) ==
    IF table \in DOMAIN tables THEN cols \subseteq tables[table] ELSE TRUE

\* db.execute of a SELECT or UPDATE: the table and the columns must exist
QueryFits(tables, table, cols) ==
    IF table \in DOMAIN tables THEN cols \subseteq tables[table] ELSE FALSE

\* the writes of process_preprint after the parent upsert, for a record with
\* subjects, tags and contributors
NestedFits(tables) ==
    /\ UpsertFits(tables, "subjects", SubjectColumns)
    /\ UpsertFits(tables, "preprint_subjects", PreprintSubjectColumns)
    /\ QueryFits(tables, "tags", TagColumns)
    /\ UpsertFits(tables, "preprint_tags", PreprintTagColumns)
    /\ UpsertFits(tables, "contributors", ContributorColumns)
    /\ UpsertFits(tables, "preprint_contributors", PreprintContributorColumns)

EmptyNorm ==
    [preprints |-> << >>, subjects |-> {}, preprint_subjects |-> {},
     tags |-> {}, preprint_tags |-> {}, contributors |-> {},
     preprint_contributors |-> {}, schema |-> "ingestor"]

NoParent == ""

\* extract_preprint_data: the columns of the parent row that matter here
ParentRow(preprint_id, a) ==
    [id |-> preprint_id, date_modified |-> a.date_modified,
     version |-> a.version, is_latest_version |-> a.is_latest_version]

\* upsert into a table kept as a set, old being its rows of the row's key
UpsertSet(T, row, old) == (T \ old) \cup {row}

SameId(T, y) == {x \in T : x.id = y.id}
SamePreprintSubject(T, y) ==
    {x \in T : x.preprint_id = y.preprint_id /\ x.subject_id = y.subject_id}
SamePreprintTag(T, y) ==
    {x \in T : x.preprint_id = y.preprint_id /\ x.tag_id = y.tag_id}
SamePreprintContributor(T, y) ==
    {x \in T : x.preprint_id = y.preprint_id /\ x.osf_user_id = y.osf_user_id}
SameUser(T, y) == {x \in T : x.osf_user_id = y.osf_user_id}

\* process_subjects_data on one chain: every node upserted, its parent_id the
\* node before it
RECURSIVE process_subjects_data(_, _, _)
process_subjects_data(subjects, chain, parent_id) ==
    IF chain = << >> THEN subjects
    ELSE process_subjects_data(
            UpsertSet(subjects, [id |-> Head(chain), parent_id |-> parent_id],
                      SameId(subjects, [id |-> Head(chain)])),
            Tail(chain), Head(chain))

(***************************************************************************)
(* String functions of the tag extraction.  A string is a sequence of      *)
(* one-character strings.                                                  *)
(***************************************************************************)
UpperLetters == <<"A", "B", "C", "D", "E", "F", "G", "H", "I", "J", "K", "L", "M", "N", "O", "P", "Q", "R", "S", "T", "U", "V", "W", "X", "Y", "Z">>
LowerLetters == <<"a", "b", "c", "d", "e", "f", "g", "h", "i", "j", "k", "l", "m", "n", "o", "p", "q", "r", "s", "t", "u", "v", "w", "x", "y", "z">>

\* str.lower() on one character
LowerChar(c) ==
    IF \E i \in 1..Len(UpperLetters) : UpperLetters[i] = c
    THEN LowerLetters[CHOOSE i \in 1..Len(UpperLetters) : UpperLetters[i] = c]
    ELSE c

\* str.lower()
LowerStr(t) == [i \in 1..Len(t) |-> LowerChar(t[i])]

\* the characters str.strip() removes and the regex class \s matches
IsSpace(c) == c \in {" ", "\t"}

\* the regex class [,;]
IsSeparator(c) == c \in {",", ";"}

\* str.strip()
RECURSIVE LStrip(_)
LStrip(t) == IF t # << >> /\ IsSpace(Head(t)) THEN LStrip(Tail(t)) ELSE t
RECURSIVE RStrip(_)
RStrip(t) ==
    IF t # << >> /\ IsSpace(t[Len(t)]) THEN RStrip(SubSeq(t, 1, Len(t) - 1)) ELSE t
Strip(t) == RStrip(LStrip(t))

\* re.split(r'[,;]+', tag): a run of separators ends one piece
RECURSIVE SplitFrom(_, _, _, _)
SplitFrom(t, i, cur, out) ==
    IF i > Len(t) THEN Append(out, cur)
    ELSE IF IsSeparator(t[i])
         THEN IF i > 1 /\ IsSeparator(t[i - 1])
              THEN SplitFrom(t, i + 1, cur, out)
              ELSE SplitFrom(t, i + 1, << >>, Append(out, cur))
         ELSE SplitFrom(t, i + 1, Append(cur, t[i]), out)
SplitTag(t) == SplitFrom(t, 1, << >>, << >>)

\* re.sub(r'\s+', ' ', t): every run of whitespace becomes one space
RECURSIVE CollapseFrom(_, _, _)
CollapseFrom(t, i, out) ==
    IF i > Len(t) THEN out
    ELSE IF IsSpace(t[i])
         THEN IF i > 1 /\ IsSpace(t[i - 1])
              THEN CollapseFrom(t, i + 1, out)
              ELSE CollapseFrom(t, i + 1, Append(out, " "))
         ELSE CollapseFrom(t, i + 1, Append(out, t[i]))
CollapseSpaces(t) == CollapseFrom(t, 1, << >>)

\* the stripped, non-empty pieces of one tag string, in order
StrippedPieces(t) ==
    SelectSeq([i \in 1..Len(SplitTag(t)) |-> Strip(SplitTag(t)[i])],
              LAMBDA piece : piece # << >>)

\* list(dict.fromkeys(l)): the first occurrence of every element, in order
RECURSIVE DedupFrom(_, _, _)
DedupFrom(l, i, out) ==
    IF i > Len(l) THEN out
    ELSE IF \E j \in 1..Len(out) : out[j] = l[i]
         THEN DedupFrom(l, i + 1, out)
         ELSE DedupFrom(l, i + 1, Append(out, l[i]))
Dedup(l) == DedupFrom(l, 1, << >>)

\* clean_and_parse_tags: the pieces of every tag string, duplicates removed
RECURSIVE AllPieces(_)
AllPieces(tags_data) ==
    IF tags_data = << >> THEN << >>
    ELSE StrippedPieces(Head(tags_data)) \o AllPieces(Tail(tags_data))
clean_and_parse_tags(tags_data) == Dedup(AllPieces(tags_data))

\* a normalisation that keeps the case of the letters
KeepCase(t) == CollapseSpaces(Strip(t))

\* normalize_tag_text: strip, lower-case, collapse whitespace
normalize_tag_text(t) == CollapseSpaces(LowerStr(Strip(t)))

\* get_or_create_tag_id: the tags table afterwards
get_or_create_tag(tags, tag_text) ==
    LET text == normalize_tag_text(tag_text)
        existing == {x \in tags : x.tag_text = text}
    IN  IF existing # {}
        THEN LET e == CHOOSE x \in existing : TRUE
             IN  (tags \ {e}) \cup {[e EXCEPT !.use_count = e.use_count + 1]}
        ELSE tags \cup {[id |-> Cardinality(tags) + 1, tag_text |-> text,
                         use_count |-> 1]}

tag_id(tags, tag_text) ==
    (CHOOSE x \in tags : x.tag_text = normalize_tag_text(tag_text)).id

RECURSIVE ProcessTags(_, _, _, _)
ProcessTags(n, preprint_id, is_latest, tag_list) ==
    IF tag_list = << >> THEN n
    ELSE LET tags1 == get_or_create_tag(n.tags, Head(tag_list))
             rel == [preprint_id |-> preprint_id,
                     tag_id |-> tag_id(tags1, Head(tag_list)),
                     is_latest_version |-> is_latest]
         IN  ProcessTags([n EXCEPT !.tags = tags1,
                                   !.preprint_tags =
                                       UpsertSet(@, rel, SamePreprintTag(@, rel))],
                         preprint_id, is_latest, Tail(tag_list))

RECURSIVE ProcessSubjectRels(_, _, _, _)
ProcessSubjectRels(rels, preprint_id, is_latest, ids) ==
    IF ids = << >> THEN rels
    ELSE ProcessSubjectRels(
            UpsertSet(rels, [preprint_id |-> preprint_id, subject_id |-> Head(ids),
                             is_latest_version |-> is_latest],
                      SamePreprintSubject(rels, [preprint_id |-> preprint_id,
                                                 subject_id |-> Head(ids)])),
            preprint_id, is_latest, Tail(ids))

\* extract_contributor_data: the user id of an entry is the id of its
\* embedded user object; an entry without one is skipped
UserIdOf(contrib) == contrib.embed

\* extract_contributor_data: the user ids of the relationships it returns
extract_contributor_ids(contribs) ==
    LET kept == SelectSeq(contribs, LAMBDA c : UserIdOf(c) # NoUser)
    IN  [i \in 1..Len(kept) |-> UserIdOf(kept[i])]

RECURSIVE ProcessContributors(_, _, _, _)
ProcessContributors(n, preprint_id, is_latest, users) ==
    IF users = << >> THEN n
    ELSE ProcessContributors(
            [n EXCEPT !.contributors =
                          UpsertSet(@, [osf_user_id |-> Head(users)],
                                    SameUser(@, [osf_user_id |-> Head(users)])),
                      !.preprint_contributors =
                          UpsertSet(@, [preprint_id |-> preprint_id,
                                        osf_user_id |-> Head(users),
                                        is_latest_version |-> is_latest],
                                    SamePreprintContributor(@,
                                        [preprint_id |-> preprint_id,
                                         osf_user_id |-> Head(users)]))],
            preprint_id, is_latest, Tail(users))

\* the one try block of process_preprint, up to the point an exception leaves it
ParentStep(n, preprint_id, a) ==
    [n EXCEPT !.preprints = UpsertRow(@, ParentRow(preprint_id, a))]
SubjectStep(n, preprint_id, a) ==
    [n EXCEPT !.subjects = process_subjects_data(@, SubjectsOf(a), NoParent),
              !.preprint_subjects =
                  ProcessSubjectRels(@, preprint_id, a.is_latest_version, SubjectsOf(a))]
TagStep(n, preprint_id, a) ==
    ProcessTags(n, preprint_id, a.is_latest_version, clean_and_parse_tags(TagsOf(a)))
ContributorStep(n, preprint_id, a) ==
    ProcessContributors(n, preprint_id, a.is_latest_version,
                        extract_contributor_ids(ContributorsOf(a)))

\* process_preprint: the tables afterwards and the value returned
process_preprint(n, preprint_id, preprint_data) ==
    LET a == preprint_data.attributes
    IN  IF a.kind = "badparent" THEN [norm |-> n, ok |-> FALSE]
        ELSE IF ~UpsertFits(TablesOf(n.schema), "preprints", ParentColumns)
        THEN [norm |-> n, ok |-> FALSE]
        ELSE IF a.kind = "badsubject"
        THEN [norm |-> ParentStep(n, preprint_id, a), ok |-> FALSE]
        ELSE IF a.kind # "plain" /\ ~NestedFits(TablesOf(n.schema))
        THEN [norm |-> ParentStep(n, preprint_id, a), ok |-> FALSE]
        ELSE [norm |-> ContributorStep(
                          TagStep(
                             SubjectStep(ParentStep(n, preprint_id, a), preprint_id, a),
                             preprint_id, a),
                          preprint_id, a),
              ok |-> TRUE]

(***************************************************************************)
(* Version Reconciler                                                      *)
(***************************************************************************)
\* ORDER BY base_id, version DESC: the first row of the group of row i, rows
\* of equal version coming out in rowid order
FirstOfGroup(p, i) ==
    CHOOSE k \in 1..Len(p) :
        /\ SqlBaseId(p[k].id) = SqlBaseId(p[i].id)
        /\ \A j \in 1..Len(p) :
              SqlBaseId(p[j].id) = SqlBaseId(p[i].id) =>
                  \/ p[k].version > p[j].version
                  \/ (p[k].version = p[j].version /\ k <= j)

\* should_be_latest of row i
ShouldBeLatest(p, i) == IF FirstOfGroup(p, i) = i THEN 1 ELSE 0

\* updates_needed: the rows whose stored flag is not the computed one
UpdatesNeeded(p) ==
    {i \in 1..Len(p) : p[i].is_latest_version # ShouldBeLatest(p, i)}

\* fix_latest_version_flags: the parent table afterwards, one
\* "UPDATE preprints SET is_latest_version = ? WHERE id = ?" per entry of
\* updates_needed
fix_latest_version_flags(p) ==
    [i \in 1..Len(p) |->
        IF i \in UpdatesNeeded(p)
        THEN [p[i] EXCEPT !.is_latest_version = ShouldBeLatest(p, i)]
        ELSE p[i]]

\* a count of every row of the table
CountAllRows(p) == Len(p)

\* len(updates_needed)
PreprintsFixed(p) == Cardinality(UpdatesNeeded(p))

ParentFlag(p, id) == (CHOOSE i \in 1..Len(p) : p[i].id = id)

\* a second pass that leaves preprint_contributors as it finds it
KeepContributorFlags(n) == n.preprint_contributors

\* the rows the UPDATE of fix_contributor_latest_version_flags touches
StaleContributorRows(n) ==
    {r \in n.preprint_contributors :
        \E i \in 1..Len(n.preprints) :
            /\ n.preprints[i].id = r.preprint_id
            /\ n.preprints[i].is_latest_version # r.is_latest_version}

\* a count of every relationship row that has a parent row
CountJoinedRows(n) ==
    Cardinality({r \in n.preprint_contributors :
                    \E i \in 1..Len(n.preprints) : n.preprints[i].id = r.preprint_id})

\* cursor.rowcount of the UPDATE
ContributorsFixed(n) == Cardinality(StaleContributorRows(n))

\* fix_contributor_latest_version_flags: preprint_contributors afterwards
fix_contributor_latest_version_flags(n) ==
    {IF r \in StaleContributorRows(n)
     THEN [r EXCEPT !.is_latest_version =
              n.preprints[ParentFlag(n.preprints, r.preprint_id)].is_latest_version]
     ELSE r : r \in n.preprint_contributors}

\* the two passes, as process_all_new_preprints runs them
Reconcile(n) ==
    LET n1 == [n EXCEPT !.preprints = fix_latest_version_flags(@)]
    IN  [n1 EXCEPT !.preprint_contributors = fix_contributor_latest_version_flags(n1)]

(***************************************************************************)
(* Normalization Engine: process_all_new_preprints                         *)
(***************************************************************************)
CommitEvery == 2      \* records between two periodic commits
MaxRaw == 2           \* rows of raw_data at the start of the ingest side
MaxStamp == 2         \* largest date_modified of a seeded raw row
MaxForce == 1         \* runs of scripts/ingest.py --force in one behaviour

\* ORDER BY r.date_modified ASC over the rows with index in S, rows of equal
\* date coming out in rowid order
RECURSIVE OrderByDateModified(_, _)
OrderByDateModified(raw, S) ==
    IF S = {} THEN << >>
    ELSE LET i == CHOOSE k \in S : \A j \in S :
                      \/ raw[k].date_modified < raw[j].date_modified
                      \/ (raw[k].date_modified = raw[j].date_modified /\ k <= j)
         IN  <<[id |-> raw[i].id, payload |-> raw[i].payload]>>
                 \o OrderByDateModified(raw, S \ {i})

\* the anti-join: raw rows whose id has no row in preprints
WithoutParent(raw, p) == {i \in 1..Len(raw) : ~HasId(p, raw[i].id)}

\* the query without its anti-join: every raw row, processed or not
SelectAllRaw(raw, p, lim) ==
    LET all == OrderByDateModified(raw, 1..Len(raw))
    IN  IF lim # NULL /\ lim # 0 THEN SubSeq(all, 1, Min(lim, Len(all))) ELSE all

\* a query that also selects the raw rows modified later than their parent row
SelectNewOrModified(raw, p, lim) ==
    LET all == OrderByDateModified(raw,
                   {i \in 1..Len(raw) :
                       \A k \in 1..Len(p) :
                           p[k].id = raw[i].id => raw[i].date_modified > p[k].date_modified})
    IN  IF lim # NULL /\ lim # 0 THEN SubSeq(all, 1, Min(lim, Len(all))) ELSE all

\* get_unprocessed_preprints
get_unprocessed_preprints(raw, p, lim) ==
    LET all == OrderByDateModified(raw, WithoutParent(raw, p))
    IN  IF lim # NULL /\ lim # 0 THEN SubSeq(all, 1, Min(lim, Len(all))) ELSE all

NoLast == [id |-> NoId, kind |-> "", ok |-> FALSE]
NoRet == << >>

\* passes: the reconciliation passes the call has run so far, in order;
\* preprints_fixed, contributors_fixed: what they returned
IngestIdle ==
    [pc |-> "idle", limit |-> NULL, pending |-> << >>, idx |-> 1,
     processed |-> 0, success |-> 0, errors |-> 0, ret |-> NoRet,
     last |-> NoLast, forces |-> 0, passes |-> << >>, attempted |-> << >>,
     preprints_fixed |-> NULL, contributors_fixed |-> NULL]

\* a gate that lets the reconciliation run after every batch
ReconcileAlways(success) == TRUE

\* "if success > 0:" before the two reconciliation passes
ShouldReconcile(success) == success > 0

IngestStopped == ingest.pc \in {"idle", "done", "crashed"}

\* scripts/ingest.py main up to the query of process_all_new_preprints:
\* --force drops and recreates the preprints table first
IngestStart(lim, force) ==
    /\ IngestStopped
    /\ harvest.pc # "loop"
    /\ force => ingest.forces < MaxForce
    /\ LET n1 == IF force THEN [norm EXCEPT !.preprints = << >>] ELSE norm
       IN  /\ norm' = n1
           /\ committed' = n1
           /\ ingest' = [IngestIdle EXCEPT
                            !.pc = "query",
                            !.limit = lim,
                            !.pending = get_unprocessed_preprints(raw_data, n1.preprints, lim),
                            !.forces = ingest.forces + (IF force THEN 1 ELSE 0)]
           /\ hist' = [hist EXCEPT
                          !.rerun = hist.after_crash /\ lim = NULL /\ ~force,
                          !.after_crash = FALSE,
                          !.unlimited = (lim = NULL /\ ~force),
                          !.run_base = IF hist.after_crash /\ lim = NULL /\ ~force
                                       THEN hist.run_base ELSE n1]
    /\ UNCHANGED <<upstream, raw_data, now, harvest, preprints_ui, tool>>

\* process_all_new_preprints: "if not unprocessed: return 0, 0, 0"
IngestBegin ==
    /\ ingest.pc = "query"
    /\ ingest' = IF ingest.pending = << >>
                 THEN [ingest EXCEPT !.pc = "done", !.ret = <<0, 0, 0>>]
                 ELSE [ingest EXCEPT !.pc = "loop"]
    /\ UNCHANGED <<upstream, raw_data, now, harvest, hist, norm, committed, preprints_ui, tool>>

\* a record whose payload column is empty
NoPayload(record) == record.payload.attributes.kind = "nopayload"

\* the body of the for loop for one record with a payload: json.loads, then
\* process_preprint; a payload that is not JSON raises in json.loads
ParseAndProcess(n, record) ==
    IF record.payload.attributes.kind = "badjson"
    THEN [norm |-> n, ok |-> FALSE]
    ELSE process_preprint(n, record.id, record.payload)

\* a loop body that lets the failure of a record end the loop
StopAtFailure(idx, pending, ok) == IF ok THEN idx + 1 ELSE Len(pending) + 1

\* the record the for loop takes after this one
NextRecord(idx, pending, ok) == idx + 1

\* one iteration of the for loop over the unprocessed records; a record
\* without payload is counted as an error and skips the rest of the body
IngestStep ==
    /\ ingest.pc = "loop"
    /\ ingest.idx <= Len(ingest.pending)
    /\ LET record == ingest.pending[ingest.idx]
           res == IF NoPayload(record) THEN [norm |-> norm, ok |-> FALSE]
                  ELSE ParseAndProcess(norm, record)
           processed == ingest.processed + (IF NoPayload(record) THEN 0 ELSE 1)
       IN  /\ norm' = res.norm
           /\ committed' = IF ~NoPayload(record) /\ processed % CommitEvery = 0
                           THEN res.norm ELSE committed
           /\ ingest' = [ingest EXCEPT
                            !.idx = NextRecord(ingest.idx, ingest.pending, res.ok),
                            !.processed = processed,
                            !.success = ingest.success + (IF res.ok THEN 1 ELSE 0),
                            !.errors = ingest.errors + (IF res.ok THEN 0 ELSE 1),
                            !.attempted = Append(@, record.id),
                            !.last = [id |-> record.id,
                                      kind |-> record.payload.attributes.kind,
                                      ok |-> res.ok]]
    /\ UNCHANGED <<upstream, raw_data, now, harvest, hist, preprints_ui, tool>>

\* the end of "with db.conn": commit; then either the reconciliation or return
IngestEndLoop ==
    /\ ingest.pc = "loop"
    /\ ingest.idx > Len(ingest.pending)
    /\ committed' = norm
    /\ ingest' = IF ShouldReconcile(ingest.success)
                 THEN [ingest EXCEPT !.pc = "fix1"]
                 ELSE [ingest EXCEPT !.pc = "done",
                          !.ret = <<ingest.processed, ingest.success, ingest.errors>>]
    /\ UNCHANGED <<upstream, raw_data, now, harvest, hist, norm, preprints_ui, tool>>

\* preprints_fixed = fix_latest_version_flags(db)
FixParents ==
    /\ ingest.pc = "fix1"
    /\ norm' = [norm EXCEPT !.preprints = fix_latest_version_flags(@)]
    /\ committed' = norm'
    /\ ingest' = [ingest EXCEPT !.pc = "fix2",
                     !.passes = Append(@, "fix_latest_version_flags"),
                     !.preprints_fixed = PreprintsFixed(norm.preprints)]
    /\ UNCHANGED <<upstream, raw_data, now, harvest, hist, preprints_ui, tool>>

\* contributors_fixed = fix_contributor_latest_version_flags(db); return
FixContributors ==
    /\ ingest.pc = "fix2"
    /\ norm' = [norm EXCEPT !.preprint_contributors =
                                fix_contributor_latest_version_flags(norm)]
    /\ committed' = norm'
    /\ ingest' = [ingest EXCEPT !.pc = "done",
                     !.passes = Append(@, "fix_contributor_latest_version_flags"),
                     !.contributors_fixed = ContributorsFixed(norm),
                     !.ret = <<ingest.processed, ingest.success, ingest.errors>>]
    /\ UNCHANGED <<upstream, raw_data, now, harvest, hist, preprints_ui, tool>>

\* the process is terminated: what was not committed is lost
Crash ==
    /\ ingest.pc \in {"query", "loop", "fix1", "fix2"}
    /\ norm' = committed
    /\ ingest' = [ingest EXCEPT !.pc = "crashed", !.last = NoLast]
    /\ hist' = [hist EXCEPT !.after_crash = hist.unlimited]
    /\ UNCHANGED <<upstream, raw_data, now, harvest, committed, preprints_ui, tool>>

(***************************************************************************)
(* Reset operations                                                        *)
(***************************************************************************)
\* insert_all into the recreated raw_data table
RECURSIVE InsertAll(_, _)
InsertAll(t, rows) ==
    IF rows = << >> THEN t ELSE InsertAll(InsertRow(t, Head(rows)), Tail(rows))

HistStopped == [hist EXCEPT !.after_crash = FALSE, !.rerun = FALSE]

\* database.reset_database: every regular table dropped, then init_db
reset_database ==
    /\ IngestStopped
    /\ harvest.pc # "loop"
    /\ raw_data' = << >>
    /\ norm' = EmptyNorm
    /\ committed' = EmptyNorm
    /\ ingest' = [IngestIdle EXCEPT !.forces = ingest.forces]
    /\ hist' = HistStopped
    /\ preprints_ui' = {}
    /\ UNCHANGED <<upstream, now, harvest, tool>>

\* tools/reset_db.py main: raw_data backed up, the file removed, init_db, the
\* backup restored
reset_db_tool ==
    /\ IngestStopped
    /\ harvest.pc # "loop"
    /\ raw_data' = InsertAll(<< >>, raw_data)
    /\ norm' = EmptyNorm
    /\ committed' = EmptyNorm
    /\ ingest' = [IngestIdle EXCEPT !.forces = ingest.forces]
    /\ hist' = HistStopped
    /\ preprints_ui' = {}
    /\ UNCHANGED <<upstream, now, harvest, tool>>

(***************************************************************************)
(* tools/fix_version_flags.py                                              *)
(***************************************************************************)
MaxToolRuns == 2      \* runs of the tool that apply the two passes

\* check_current_status: as many rows flagged latest as there are base ids
check_current_status(p) ==
    Cardinality({i \in 1..Len(p) : p[i].is_latest_version = 1})
        = Cardinality({SqlBaseId(p[i].id) : i \in 1..Len(p)})

FlagsApplied == IF tool.name = "fix_version_flags" THEN tool.applied ELSE 0

\* main, up to "Apply fixes": the status check, the --dry-run return and the
\* return of a run that finds the counts consistent and is not --verbose
FlagsStart(verbose, dry_run) ==
    /\ IF tool.name = "fix_version_flags" THEN tool.pc = "done" ELSE tool = NoTool
    /\ FlagsApplied < MaxToolRuns
    /\ harvest.pc # "loop"
    /\ ingest.pc = "idle"
    /\ LET status_ok == check_current_status(norm.preprints)
           returns == dry_run \/ (status_ok /\ ~verbose)
       IN  tool' = [name |-> "fix_version_flags",
                    pc |-> IF returns THEN "done" ELSE "fix_parents",
                    verbose |-> verbose, dry_run |-> dry_run,
                    status_ok |-> status_ok,
                    before |-> norm, updates |-> {},
                    preprints_fixed |-> NULL, contributors_fixed |-> NULL,
                    passes |-> 0, applied |-> FlagsApplied,
                    ret |-> IF returns THEN 0 ELSE NULL]
    /\ UNCHANGED <<upstream, raw_data, now, harvest, hist, norm, committed,
                   ingest, preprints_ui>>

\* main: preprints_fixed = fix_latest_version_flags(db)
FlagsFixParents ==
    /\ tool.name = "fix_version_flags"
    /\ tool.pc = "fix_parents"
    /\ norm' = [norm EXCEPT !.preprints = fix_latest_version_flags(@)]
    /\ committed' = norm'
    /\ tool' = [tool EXCEPT
                   !.pc = "fix_contributors",
                   !.updates = {norm.preprints[i].id :
                                   i \in UpdatesNeeded(norm.preprints)},
                   !.preprints_fixed = PreprintsFixed(norm.preprints),
                   !.passes = 1]
    /\ UNCHANGED <<upstream, raw_data, now, harvest, hist, ingest, preprints_ui>>

\* main: contributors_fixed = fix_contributor_latest_version_flags(db), the
\* final check_current_status and the return
FlagsFixContributors ==
    /\ tool.name = "fix_version_flags"
    /\ tool.pc = "fix_contributors"
    /\ norm' = [norm EXCEPT !.preprint_contributors =
                                fix_contributor_latest_version_flags(norm)]
    /\ committed' = norm'
    /\ tool' = [tool EXCEPT
                   !.pc = "done",
                   !.contributors_fixed = ContributorsFixed(norm),
                   !.passes = 2,
                   !.applied = @ + 1,
                   !.ret = IF check_current_status(norm.preprints) THEN 0 ELSE 1]
    /\ UNCHANGED <<upstream, raw_data, now, harvest, hist, ingest, preprints_ui>>

(***************************************************************************)
(* Denormalized View Builder: osf/optimizer_ui.py populate_preprints_ui.   *)
(* The wall clock of the machine (datetime.now()) is the variable now; the *)
(* tables the per-preprint queries read are taken to exist with the        *)
(* columns these queries name.                                             *)
(***************************************************************************)
BatchSize == 1        \* batch_size
MaxViewRuns == 3      \* runs of populate_preprints_ui
MaxViewTime == 3      \* last tick of the wall clock and of date_modified

\* SQLite datetime(x): 'YYYY-MM-DD HH:MM:SS', fractional seconds dropped
Datetime(t) == StripFraction(t)

ParentIdSeq(p) == [i \in 1..Len(p) |-> p[i].id]

\* parents without a row in preprints_ui
NewPreprintIds(p, ui) ==
    {p[i].id : i \in {k \in 1..Len(p) : ~\E u \in ui : u.id = p[k].id}}

\* parents with a row in preprints_ui and
\* datetime(p.date_modified) > datetime(u.last_updated)
ModifiedPreprintIds(p, ui) ==
    {p[i].id : i \in {k \in 1..Len(p) :
                         \E u \in ui :
                            /\ u.id = p[k].id
                            /\ Datetime(p[k].date_modified) > Datetime(u.last_updated)}}

\* list(set(...)): the ids once each, in any order
Orders(S) ==
    {q \in [1..Cardinality(S) -> S] : \A i, j \in 1..Cardinality(S) : q[i] = q[j] => i = j}

\* the record built for one preprint of a batch
UiRecord(parent, stamp) ==
    [id |-> parent.id, date_modified |-> parent.date_modified,
     is_latest_version |-> parent.is_latest_version, last_updated |-> stamp]

\* records of a batch: one for each id that still has a parent row
BatchRecords(p, batch, stamp) ==
    {UiRecord(p[i], stamp) : i \in {k \in 1..Len(p) : \E j \in 1..Len(batch) : batch[j] = p[k].id}}

\* upsert_all(records, pk="id")
UpsertAllUi(ui, records) ==
    {u \in ui : ~\E r \in records : r.id = u.id} \cup records

ViewRuns == IF tool.name = "populate_preprints_ui" THEN tool.runs ELSE 0

\* the previous run of populate_preprints_ui stored every batch, and the
\* parent table has not been written since
FollowsCleanRun ==
    IF tool.name = "populate_preprints_ui"
    THEN ~tool.failed /\ ~tool.touched
    ELSE FALSE

\* populate_preprints_ui, up to the loop over the batches: the ids to
\* process, and "return 0" when there are none
PopulateStart(full_rebuild, ids) ==
    /\ IF tool.name = "populate_preprints_ui" THEN tool.pc = "done" ELSE tool = NoTool
    /\ ViewRuns < MaxViewRuns
    /\ harvest.pc # "loop"
    /\ IngestStopped
    /\ IF full_rebuild
       THEN ids = ParentIdSeq(norm.preprints)
       ELSE ids \in Orders(NewPreprintIds(norm.preprints, preprints_ui)
                             \cup ModifiedPreprintIds(norm.preprints, preprints_ui))
    /\ tool' = [name |-> "populate_preprints_ui",
                pc |-> IF ids = << >> THEN "done" ELSE "batches",
                full_rebuild |-> full_rebuild,
                preprint_ids |-> ids, i |-> 0, total_processed |-> 0,
                failed |-> FALSE, touched |-> FALSE,
                raised |-> FALSE, stored_ids |-> {},
                after_clean |-> FollowsCleanRun,
                runs |-> ViewRuns + 1,
                ret |-> IF ids = << >> THEN 0 ELSE NULL]
    /\ UNCHANGED <<upstream, raw_data, now, harvest, hist, norm, committed,
                   ingest, preprints_ui>>

\* a count that takes in the records of a batch whether stored or not
CountEveryBatch(total, records, stored) == total + Cardinality(records)

\* total_processed += len(records), reached only when upsert_all returned
CountStored(total, records, stored) ==
    total + (IF stored THEN Cardinality(records) ELSE 0)

\* one iteration of "for i in range(0, len(preprint_ids), batch_size)", the
\* upsert_all of the batch raising or not; after the last batch, the return
PopulateBatch(raises) ==
    /\ tool.name = "populate_preprints_ui"
    /\ tool.pc = "batches"
    /\ LET last == Min(tool.i + BatchSize, Len(tool.preprint_ids))
           batch == SubSeq(tool.preprint_ids, tool.i + 1, last)
           records == BatchRecords(norm.preprints, batch, now)
           stored == records # {} /\ ~raises
           total == CountStored(tool.total_processed, records, stored)
       IN  /\ raises => records # {}
           /\ preprints_ui' = IF stored THEN UpsertAllUi(preprints_ui, records)
                              ELSE preprints_ui
           /\ tool' = [tool EXCEPT
                          !.i = tool.i + BatchSize,
                          !.total_processed = total,
                          !.failed = @ \/ raises,
                          !.raised = raises,
                          !.stored_ids = IF stored THEN @ \cup {r.id : r \in records}
                                         ELSE @,
                          !.pc = IF last = Len(tool.preprint_ids) THEN "done" ELSE "batches",
                          !.ret = IF last = Len(tool.preprint_ids) THEN total ELSE NULL]
    /\ UNCHANGED <<upstream, raw_data, now, harvest, hist, norm, committed, ingest>>

\* the wall clock advances
Tick ==
    /\ now < MaxViewTime
    /\ now' = now + 1
    /\ UNCHANGED <<upstream, raw_data, harvest, hist, norm, committed, ingest,
                   preprints_ui, tool>>

\* the parent row of a record is written again from a payload that was
\* modified later (the parent upsert of process_preprint)
ReingestParent(i, dm) ==
    /\ IF tool.name = "populate_preprints_ui" THEN tool.pc = "done" ELSE tool = NoTool
    /\ harvest.pc # "loop"
    /\ ingest.pc = "idle"
    /\ i \in 1..Len(norm.preprints)
    /\ dm > norm.preprints[i].date_modified
    /\ norm' = ParentStep(norm, norm.preprints[i].id,
                          Attributes(dm, norm.preprints[i].version,
                                     norm.preprints[i].is_latest_version, "plain"))
    /\ committed' = norm'
    /\ tool' = IF tool.name = "populate_preprints_ui"
               THEN [tool EXCEPT !.touched = TRUE] ELSE tool
    /\ UNCHANGED <<upstream, raw_data, now, harvest, hist, ingest, preprints_ui>>

(***************************************************************************)
(* Specification of the harvest side                                       *)
(***************************************************************************)
Sorted(s) == \A i \in 1..(Len(s) - 1) : s[i][1] <= s[i + 1][1]

\* upstream collections: up to MaxDocs documents in date_modified order, any
\* of them possibly without an id
UpstreamChoices ==
    UNION {
        {[i \in 1..n |-> [id |-> IF s[i][2] THEN DocId(i) ELSE NoId,
                          attributes |-> Attributes(s[i][1], 1, 1, "plain")]] :
            s \in {x \in [1..n -> (0..MaxTime) \X BOOLEAN] : Sorted(x)}} :
        n \in 0..MaxDocs}

HistInit ==
    [after_complete |-> FALSE, last_complete |-> FALSE,
     last_saved |-> << >>, resaved |-> FALSE, saved_ids |-> {},
     unlimited |-> FALSE, after_crash |-> FALSE, rerun |-> FALSE,
     run_base |-> EmptyNorm]

InitHarvest ==
    /\ upstream \in UpstreamChoices
    /\ raw_data = << >>
    /\ now = 0
    /\ harvest = HarvestIdle
    /\ hist = HistInit
    /\ norm = EmptyNorm
    /\ committed = EmptyNorm
    /\ ingest = IngestIdle
    /\ preprints_ui = {}
    /\ tool = NoTool

NextHarvest ==
    \/ \E lim \in {NULL} \cup (1..MaxLimit) : HarvestStart(lim)
    \/ HarvestFetch
    \/ HarvestReturn
    \/ \E max_gap \in 1..MaxGapTicks : GapStart(max_gap)
    \/ GapFillOne
    \/ GapReturn

SpecHarvest == InitHarvest /\ [][NextHarvest]_vars

\* the harvester and fix_gaps --dry-run on the same store
NextGapDry ==
    \/ \E lim \in {NULL} \cup (1..MaxLimit) : HarvestStart(lim)
    \/ HarvestFetch
    \/ HarvestReturn
    \/ \E max_gap \in 1..MaxGapTicks : GapDryStart(max_gap)
    \/ \E fails \in BOOLEAN : GapDryOne(fails)
    \/ GapDryReturn

SpecGapDry == InitHarvest /\ [][NextGapDry]_vars

\* upstream collections in which a document may have no id or may be one
\* whose save raises
Flavours == {"id", "noid", "raises"}

UpstreamChoicesFail ==
    UNION {
        {[i \in 1..n |-> [id |-> IF s[i][2] = "noid" THEN NoId ELSE DocId(i),
                          attributes |->
                              Attributes(s[i][1], 1, 1,
                                         IF s[i][2] = "raises" THEN "unsavable"
                                         ELSE "plain")]] :
            s \in {x \in [1..n -> (0..MaxTime) \X Flavours] :
                      \A i, j \in 1..n : i < j => x[i][1] <= x[j][1]}} :
        n \in 0..MaxDocs}

InitHarvestFail ==
    /\ upstream \in UpstreamChoicesFail
    /\ raw_data = << >>
    /\ now = 0
    /\ harvest = HarvestIdle
    /\ hist = HistInit
    /\ norm = EmptyNorm
    /\ committed = EmptyNorm
    /\ ingest = IngestIdle
    /\ preprints_ui = {}
    /\ tool = NoTool

(***************************************************************************)
(* Specification of harvest_preprints over a remote source whose requests  *)
(* may fail                                                                *)
(***************************************************************************)
MaxFailRuns == 2      \* harvest runs in one behaviour of SpecHarvestFail

NextHarvestFail ==
    \/ \E lim \in {NULL} \cup (1..MaxLimit) : now < MaxFailRuns /\ HarvestStart(lim)
    \/ HarvestFetch
    \/ \E not_found \in BOOLEAN, text404 \in BOOLEAN : HarvestFail(not_found, text404)
    \/ HarvestReturn

SpecHarvestFail == InitHarvestFail /\ [][NextHarvestFail]_vars

(***************************************************************************)
(* Specification of one harvest_preprints process that keeps running: an   *)
(* iteration of its loop, or its return, is taken whenever one can change  *)
(* the state.  Whether a request succeeds is up to the remote source.      *)
(***************************************************************************)
HarvestLoopStep ==
    \/ HarvestFetch
    \/ \E not_found \in BOOLEAN, text404 \in BOOLEAN : HarvestFail(not_found, text404)
    \/ HarvestFailDown
    \/ HarvestReturn

NextHarvestLive ==
    \/ \E lim \in {NULL} \cup (1..MaxLimit) : HarvestStart(lim)
    \/ HarvestLoopStep
    \/ RemoteDown

MaxLiveDocs == 1      \* documents in the upstream collection of SpecHarvestLive

InitHarvestLive == InitHarvest /\ Len(upstream) <= MaxLiveDocs

SpecHarvestLive ==
    InitHarvestLive /\ [][NextHarvestLive]_vars /\ WF_vars(HarvestLoopStep)

(***************************************************************************)
(* Specification of harvest_preprints processes that keep running against  *)
(* a remote source that recovers: a run sees at most MaxFailures failed     *)
(* requests, of any kind, and from then on every request of the run is     *)
(* answered; the process goes on to its next iteration, or returns,        *)
(* whenever it can.  The upstream collection does not change.              *)
(***************************************************************************)
MaxFairTime == 1      \* largest date_modified of the upstream collection

InitHarvestFair ==
    /\ InitHarvestFail
    /\ \A i \in 1..Len(upstream) : upstream[i].attributes.date_modified <= MaxFairTime

MaxFairRuns == 1      \* harvest runs in one behaviour of SpecHarvestFair

NextHarvestFair ==
    \/ \E lim \in {NULL} \cup (1..MaxLimit) : now < MaxFairRuns /\ HarvestStart(lim)
    \/ HarvestFetch
    \/ \E not_found \in BOOLEAN, text404 \in BOOLEAN : HarvestFail(not_found, text404)
    \/ HarvestReturn

HarvestProgress == HarvestFetch \/ HarvestReturn

SpecHarvestFair ==
    InitHarvestFair /\ [][NextHarvestFair]_vars /\ WF_vars(HarvestProgress)

(***************************************************************************)
(* Specification of the ingest side                                        *)
(***************************************************************************)
\* ids of parent records: two versions of one base identity, and two ids
\* that carry no version suffix
PreprintIds ==
    {<<"a", "_", "v", "1">>, <<"a", "_", "v", "2">>,
     <<"a", "v", "b">>, <<"c", "v", "d">>}

\* attributes.version of a document: the number of its version suffix, 1
\* for an id without one
VersionOf(id) == IF id = <<"a", "_", "v", "2">> THEN 2 ELSE 1

SeedDocs ==
    {[id |-> id, attributes |-> Attributes(dm, VersionOf(id), latest, kind)] :
        id \in PreprintIds, dm \in 1..MaxStamp, latest \in {0, 1}, kind \in Kinds}

\* raw_data as earlier harvests left it: up to MaxRaw rows, no id twice
RawChoices ==
    UNION {
        {[i \in 1..n |-> RawRow(s[i], 1)] :
            s \in {x \in [1..n -> SeedDocs] :
                      \A i, j \in 1..n : x[i].id = x[j].id => i = j}} :
        n \in 0..MaxRaw}

InitIngest ==
    /\ upstream = << >>
    /\ raw_data \in RawChoices
    /\ now = 1
    /\ harvest = HarvestIdle
    /\ hist = HistInit
    /\ norm = EmptyNorm
    /\ committed = EmptyNorm
    /\ ingest = IngestIdle
    /\ preprints_ui = {}
    /\ tool = NoTool

NextIngest ==
    \/ \E lim \in {NULL} \cup (0..MaxLimit), force \in BOOLEAN : IngestStart(lim, force)
    \/ IngestBegin
    \/ IngestStep
    \/ IngestEndLoop
    \/ FixParents
    \/ FixContributors
    \/ Crash
    \/ reset_database
    \/ reset_db_tool

SpecIngest == InitIngest /\ [][NextIngest]_vars

(***************************************************************************)
(* Specification of process_all_new_preprints over raw records of every    *)
(* shape: well-formed, failing in process_preprint, without payload, with  *)
(* a payload that is not JSON.                                             *)
(***************************************************************************)
MaxBatchRaw == 3      \* rows of raw_data

BatchKinds == Kinds \cup {"nopayload", "badjson"}

BatchIds == {<<"a", "_", "v", "1">>, <<"a", "_", "v", "2">>, <<"a", "v", "b">>}

BatchDocs ==
    {[id |-> id, attributes |-> Attributes(dm, VersionOf(id), 1, kind)] :
        id \in BatchIds, dm \in 1..MaxStamp, kind \in BatchKinds}

BatchRawChoices ==
    UNION {
        {[i \in 1..n |-> RawRow(s[i], 1)] :
            s \in {x \in [1..n -> BatchDocs] :
                      \A i, j \in 1..n : x[i].id = x[j].id => i = j}} :
        n \in 0..MaxBatchRaw}

InitBatch ==
    /\ upstream = << >>
    /\ raw_data \in BatchRawChoices
    /\ now = 1
    /\ harvest = HarvestIdle
    /\ hist = HistInit
    /\ norm = EmptyNorm
    /\ committed = EmptyNorm
    /\ ingest = IngestIdle
    /\ preprints_ui = {}
    /\ tool = NoTool

NextBatch ==
    \/ \E lim \in {NULL} \cup (1..MaxLimit) : IngestStart(lim, FALSE)
    \/ IngestBegin
    \/ IngestStep
    \/ IngestEndLoop
    \/ FixParents
    \/ FixContributors

SpecBatch == InitBatch /\ [][NextBatch]_vars

(***************************************************************************)
(* Specification of the tag extraction: one or two raw records whose       *)
(* payloads carry tag lists, taken through process_all_new_preprints.      *)
(***************************************************************************)
MaxTagLen == 2      \* characters of a tag string
MaxTagList == 2     \* strings of a tag list

TagChars == {"A", "a", " ", ","}

\* tag strings with a run of spaces, a run of separators, a tab
SpacedTag == <<"a", " ", " ", "A">>
SeparatedTag == <<"A", ";", ";", " ", "a">>
TabbedTag == <<"a", "\t", "A">>

TagStrings ==
    UNION {[1..n -> TagChars] : n \in 0..MaxTagLen}
        \cup {SpacedTag, SeparatedTag, TabbedTag}

\* ["Neuroscience, Open Science", "open science"]
ExampleTags == <<<<"N", "e", "u", "r", "o", "s", "c", "i", "e", "n", "c", "e", ",", " ", "O", "p", "e", "n", " ", "S", "c", "i", "e", "n", "c", "e">>,
                 <<"o", "p", "e", "n", " ", "s", "c", "i", "e", "n", "c", "e">>>>

TagLists == UNION {[1..n -> TagStrings] : n \in 0..MaxTagList} \cup {ExampleTags}

\* the tag lists of a second record
OtherTagLists == {<< >>, <<<<"a">>>>, <<<<" ", "A">>, <<"a", ",">>>>, ExampleTags}

TaggedDoc(id, dm, tag_list) ==
    [id |-> id,
     attributes |-> [date_modified |-> dm, version |-> VersionOf(id),
                     is_latest_version |-> 1, kind |-> "tagged", tags |-> tag_list]]

TagRawChoices ==
    {<<RawRow(TaggedDoc(<<"a">>, 1, l), 1)>> : l \in TagLists}
        \cup {<<RawRow(TaggedDoc(<<"a">>, 1, l), 1), RawRow(TaggedDoc(<<"b">>, 2, m), 1)>> :
                 l \in TagLists, m \in OtherTagLists}

InitTags ==
    /\ upstream = << >>
    /\ raw_data \in TagRawChoices
    /\ now = 1
    /\ harvest = HarvestIdle
    /\ hist = HistInit
    /\ norm = EmptyNorm
    /\ committed = EmptyNorm
    /\ ingest = IngestIdle
    /\ preprints_ui = {}
    /\ tool = NoTool

SpecTags == InitTags /\ [][NextBatch]_vars

(***************************************************************************)
(* Specification of the contributor extraction: one or two raw records     *)
(* whose payloads carry contributor entries, taken through                 *)
(* process_all_new_preprints.                                              *)
(***************************************************************************)
MaxContributors == 2      \* contributor entries of a record

UserIds == {"u1", "u2"}

ContributorEntries ==
    {Contributor(rel, embed) : rel \in UserIds \cup {NoUser}, embed \in UserIds \cup {NoUser}}

ContributorLists == UNION {[1..n -> ContributorEntries] : n \in 0..MaxContributors}

\* the contributor entries of a second record
OtherContributorLists ==
    {<< >>, <<Contributor("u1", "u1")>>, <<Contributor("u2", NoUser)>>,
     <<Contributor(NoUser, NoUser), Contributor(NoUser, "u2")>>}

AuthoredDoc(id, dm, contribs) ==
    [id |-> id,
     attributes |-> [date_modified |-> dm, version |-> VersionOf(id),
                     is_latest_version |-> 1, kind |-> "authored",
                     contributors |-> contribs]]

ContributorRawChoices ==
    {<<RawRow(AuthoredDoc(<<"a">>, 1, l), 1)>> : l \in ContributorLists}
        \cup {<<RawRow(AuthoredDoc(<<"a">>, 1, l), 1), RawRow(AuthoredDoc(<<"b">>, 2, m), 1)>> :
                 l \in ContributorLists, m \in OtherContributorLists}

InitContributors ==
    /\ upstream = << >>
    /\ raw_data \in ContributorRawChoices
    /\ now = 1
    /\ harvest = HarvestIdle
    /\ hist = HistInit
    /\ norm = EmptyNorm
    /\ committed = EmptyNorm
    /\ ingest = IngestIdle
    /\ preprints_ui = {}
    /\ tool = NoTool

SpecContributors == InitContributors /\ [][NextBatch]_vars

(***************************************************************************)
(* Specification of ingest runs between which the harvester stores a later *)
(* payload for a record the store already holds.                           *)
(***************************************************************************)
MaxReharvest == 3      \* latest date_modified of a payload stored again

ReharvestDocs ==
    {[id |-> id, attributes |-> Attributes(dm, VersionOf(id), 1, kind)] :
        id \in {<<"a", "_", "v", "1">>, <<"a", "_", "v", "2">>},
        dm \in 1..MaxStamp, kind \in {"plain", "full"}}

ReharvestRawChoices ==
    UNION {
        {[i \in 1..n |-> RawRow(s[i], 1)] :
            s \in {x \in [1..n -> ReharvestDocs] :
                      \A i, j \in 1..n : x[i].id = x[j].id => i = j}} :
        n \in 1..2}

InitReharvest ==
    /\ upstream = << >>
    /\ raw_data \in ReharvestRawChoices
    /\ now = 1
    /\ harvest = HarvestIdle
    /\ hist = HistInit
    /\ norm = EmptyNorm
    /\ committed = EmptyNorm
    /\ ingest = IngestIdle
    /\ preprints_ui = {}
    /\ tool = NoTool

\* save_preprint on a document the harvester meets again with a later
\* date_modified: the raw row of its id is replaced
Reharvest(i, dm) ==
    /\ IngestStopped
    /\ i \in 1..Len(raw_data)
    /\ dm > raw_data[i].date_modified
    /\ raw_data' = save_preprint(raw_data,
                       [raw_data[i].payload EXCEPT !.attributes.date_modified = dm],
                       now)
    /\ UNCHANGED <<upstream, now, harvest, hist, norm, committed, ingest,
                   preprints_ui, tool>>

NextReharvest ==
    \/ \E lim \in {NULL} \cup (1..MaxLimit), force \in BOOLEAN : IngestStart(lim, force)
    \/ IngestBegin
    \/ IngestStep
    \/ IngestEndLoop
    \/ FixParents
    \/ FixContributors
    \/ \E i \in 1..2, dm \in 1..MaxReharvest : Reharvest(i, dm)

SpecReharvest == InitReharvest /\ [][NextReharvest]_vars

(***************************************************************************)
(* Specification of process_all_new_preprints on a store whose tables are  *)
(* the ones init_db creates, or the ones the ingestor's writes name.       *)
(***************************************************************************)
SchemaRawChoices == {r \in BatchRawChoices : Len(r) <= 2}

InitSchema ==
    /\ upstream = << >>
    /\ raw_data \in SchemaRawChoices
    /\ now = 1
    /\ harvest = HarvestIdle
    /\ hist = HistInit
    /\ \E schema \in {"init_db", "ingestor"} : norm = [EmptyNorm EXCEPT !.schema = schema]
    /\ committed = norm
    /\ ingest = IngestIdle
    /\ preprints_ui = {}
    /\ tool = NoTool

SpecSchema == InitSchema /\ [][NextBatch]_vars

(***************************************************************************)
(* Specification of the reconciliation tool: tools/fix_version_flags.py    *)
(* run, up to MaxToolRuns times, over normalized tables in any state.      *)
(***************************************************************************)
MaxParents == 3       \* rows of preprints
MaxVersion == 2       \* largest version number

ParentChoices ==
    UNION {
        {[i \in 1..n |-> [id |-> s[i].id, date_modified |-> 1,
                          version |-> s[i].version,
                          is_latest_version |-> s[i].latest]] :
            s \in {x \in [1..n -> [id : PreprintIds, version : 1..MaxVersion,
                                   latest : {0, 1}]] :
                      \A i, j \in 1..n : x[i].id = x[j].id => i = j}} :
        n \in 0..MaxParents}

\* the preprints that may have a row in preprint_contributors, with or
\* without a parent row
ContributorParents ==
    {<<"a", "_", "v", "1">>, <<"c", "v", "d">>}

ContributorChoices ==
    {{[preprint_id |-> id, osf_user_id |-> "u1", is_latest_version |-> f[id]] :
         id \in {x \in ContributorParents : f[x] # NULL}} :
     f \in [ContributorParents -> {NULL, 0, 1}]}

InitReconcile ==
    /\ upstream = << >>
    /\ raw_data = << >>
    /\ now = 1
    /\ harvest = HarvestIdle
    /\ hist = HistInit
    /\ \E p \in ParentChoices, pc \in ContributorChoices :
          norm = [EmptyNorm EXCEPT !.preprints = p, !.preprint_contributors = pc]
    /\ committed = norm
    /\ ingest = IngestIdle
    /\ preprints_ui = {}
    /\ tool = NoTool

NextReconcile ==
    \/ \E verbose \in BOOLEAN, dry_run \in BOOLEAN : FlagsStart(verbose, dry_run)
    \/ FlagsFixParents
    \/ FlagsFixContributors

SpecReconcile == InitReconcile /\ [][NextReconcile]_vars

(***************************************************************************)
(* Specification of the view builder: runs of populate_preprints_ui, full  *)
(* and incremental, over a parent table whose rows are written again       *)
(* between runs, the wall clock advancing.                                 *)
(***************************************************************************)
MaxViewParents == 2   \* rows of preprints

\* two versions of one preprint
ViewIds == {<<"a", "_", "v", "1">>, <<"a", "_", "v", "2">>}

ViewParentChoices ==
    UNION {
        {[i \in 1..n |-> ParentRow(s[i].id,
                            Attributes(s[i].dm, VersionOf(s[i].id), 1, "plain"))] :
            s \in {x \in [1..n -> [id : ViewIds, dm : 0..MaxViewTime]] :
                      \A i, j \in 1..n : x[i].id = x[j].id => i = j}} :
        n \in 0..MaxViewParents}

InitView ==
    /\ upstream = << >>
    /\ raw_data = << >>
    /\ now \in 0..MaxViewTime
    /\ harvest = HarvestIdle
    /\ hist = HistInit
    /\ \E p \in ViewParentChoices : norm = [EmptyNorm EXCEPT !.preprints = p]
    /\ committed = norm
    /\ ingest = IngestIdle
    /\ preprints_ui = {}
    /\ tool = NoTool

NextView ==
    \/ \E full_rebuild \in BOOLEAN,
          ids \in UNION {Orders(S) : S \in SUBSET {norm.preprints[i].id :
                                                     i \in 1..Len(norm.preprints)}} :
          PopulateStart(full_rebuild, ids)
    \/ \E raises \in BOOLEAN : PopulateBatch(raises)
    \/ Tick
    \/ \E i \in 1..MaxViewParents, dm \in 0..MaxViewTime : ReingestParent(i, dm)

SpecView == InitView /\ [][NextView]_vars

(***************************************************************************)
(* Specification of the pipeline from raw records to the view: ingest runs *)
(* with their reconciliation, and incremental runs of populate_preprints_ui *)
(* between them, none of whose batches fails.                              *)
(***************************************************************************)
PipelineDocs ==
    {[id |-> id, attributes |-> Attributes(dm, VersionOf(id), 1, "plain")] :
        id \in ViewIds, dm \in 0..1}

PipelineRawChoices ==
    UNION {
        {[i \in 1..n |-> RawRow(s[i], 1)] :
            s \in {x \in [1..n -> PipelineDocs] :
                      \A i, j \in 1..n : x[i].id = x[j].id => i = j}} :
        n \in 1..2}

InitPipeline ==
    /\ upstream = << >>
    /\ raw_data \in PipelineRawChoices
    /\ now = TicksPerSecond
    /\ harvest = HarvestIdle
    /\ hist = HistInit
    /\ norm = EmptyNorm
    /\ committed = EmptyNorm
    /\ ingest = IngestIdle
    /\ preprints_ui = {}
    /\ tool = NoTool

\* no run of populate_preprints_ui is under way
PopulateStopped ==
    IF tool.name = "populate_preprints_ui" THEN tool.pc = "done" ELSE tool = NoTool

NextPipeline ==
    \/ /\ PopulateStopped
       /\ \E lim \in {NULL} \cup (1..MaxLimit) : IngestStart(lim, FALSE)
    \/ IngestBegin
    \/ IngestStep
    \/ IngestEndLoop
    \/ FixParents
    \/ FixContributors
    \/ \E ids \in UNION {Orders(S) : S \in SUBSET {norm.preprints[i].id :
                                                    i \in 1..Len(norm.preprints)}} :
          PopulateStart(FALSE, ids)
    \/ PopulateBatch(FALSE)
    \/ Tick

SpecPipeline == InitPipeline /\ [][NextPipeline]_vars

(***************************************************************************)
(* Properties of the harvest side                                          *)
(***************************************************************************)
\* the state in which harvest_preprints has built its first URL and has not
\* yet sent a request
JustStarted == harvest.pc = "loop" /\ harvest.requests = 0

\* C3: when harvest_preprints has run to completion without a limit and is
\* invoked again over the same upstream collection, the second invocation
\* saves no record and returns 0.
C3_SecondRunSavesZero ==
    (harvest.pc = "done" /\ hist.after_complete) => harvest.ret = 0

\* C4: when a run without limit returns, every upstream document that has an
\* id and whose date_modified is greater than the run's resume point is in
\* the Raw Store.
C4_NoGapAfterRun ==
    (harvest.pc = "done" /\ harvest.limit = NULL) =>
        \A i \in 1..Len(upstream) :
            (/\ upstream[i].id # NoId
             /\ (harvest.resume = NULL
                   \/ upstream[i].attributes.date_modified > harvest.resume))
            => upstream[i].id \in RawIds(raw_data)

\* C5: raw_data holds at most one row per document id; its ids are exactly the
\* ids saved so far; and every document saved by the latest step is held by a
\* row carrying that document's dates and payload and the current fetch_date.
C5_OneRowPerId ==
    /\ \A i, j \in 1..Len(raw_data) : raw_data[i].id = raw_data[j].id => i = j
    /\ RawIds(raw_data) = hist.saved_ids
    /\ \A k \in 1..Len(hist.last_saved) :
         \E i \in 1..Len(raw_data) :
            /\ raw_data[i].id = hist.last_saved[k].id
            /\ raw_data[i].date_modified = hist.last_saved[k].attributes.date_modified
            /\ raw_data[i].payload = hist.last_saved[k]
            /\ raw_data[i].fetch_date = now

\* a document whose id was already stored has been saved again, by a later run
C5_Witness ==
    /\ hist.resaved
    /\ \E i \in 1..Len(raw_data) : raw_data[i].fetch_date > 1
    /\ \E i \in 1..Len(raw_data) : raw_data[i].fetch_date = 1

\* C7: the resume point computed at the start of harvest_preprints equals the
\* maximum date_modified of raw_data (absent when there is none), and the first
\* request filters on date_modified greater than exactly that value.
C7_ResumeIsMaxStored ==
    JustStarted =>
        /\ harvest.resume = MaxDateModified(raw_data)
        /\ harvest.url = [gt |-> MaxDateModified(raw_data), page |-> 1]

(***************************************************************************)
(* Properties of the ingest side                                           *)
(***************************************************************************)
\* the base identity of an id: the part before the first "_v", the whole id
\* when it has no "_v"
BaseIdentity(id) ==
    IF Instr_v(id) = 0 THEN id ELSE SubSeq(id, 1, Instr_v(id) - 1)

SameBase(p, i) == {j \in 1..Len(p) : BaseIdentity(p[j].id) = BaseIdentity(p[i].id)}

\* C1: when fix_latest_version_flags has run, every base identity of the
\* parent table has exactly one row with is_latest_version = 1, and that row
\* has the greatest version among the rows of its base identity.
C1_OneLatestPerBase ==
    ingest.pc = "fix2" =>
        LET p == norm.preprints
        IN  \A i \in 1..Len(p) :
                \E k \in SameBase(p, i) :
                    /\ p[k].is_latest_version = 1
                    /\ \A j \in SameBase(p, i) :
                          /\ p[j].is_latest_version = 1 => j = k
                          /\ p[k].version >= p[j].version

RelTables(n) == n.preprint_contributors \cup n.preprint_subjects \cup n.preprint_tags

\* C2: when both reconciliation passes have run, every row of
\* preprint_contributors, preprint_subjects and preprint_tags whose parent
\* exists carries the parent's is_latest_version.
C2_RelationshipFlagsMatchParent ==
    (ingest.pc = "done" /\ ingest.success > 0) =>
        \A r \in RelTables(norm) :
            \A i \in 1..Len(norm.preprints) :
                norm.preprints[i].id = r.preprint_id =>
                    r.is_latest_version = norm.preprints[i].is_latest_version

\* C6: no step of any operation removes a row of raw_data: every id stored
\* before the step is stored after it.
C6_RawStoreAppendOnly ==
    [][RawIds(raw_data) \subseteq RawIds(raw_data')]_vars

Unprocessed == {i \in 1..Len(raw_data) :
                   \A k \in 1..Len(norm.preprints) : norm.preprints[k].id # raw_data[i].id}

\* the property of the result of get_unprocessed_preprints, for the limits in L
ReturnsOldestUnprocessed(L) ==
    (ingest.pc = "query" /\ ingest.limit \in L) =>
        LET pend == ingest.pending
            n == Cardinality(Unprocessed)
        IN  /\ Len(pend) = IF ingest.limit = NULL THEN n ELSE Min(ingest.limit, n)
            /\ \A a, b \in 1..Len(pend) : pend[a].id = pend[b].id => a = b
            /\ \A a \in 1..Len(pend) :
                  \E i \in Unprocessed :
                      /\ raw_data[i].id = pend[a].id
                      /\ raw_data[i].payload = pend[a].payload
                      /\ \A b \in 1..Len(pend) :
                            a < b => raw_data[i].date_modified
                                        <= pend[b].payload.attributes.date_modified
                      /\ \A j \in Unprocessed :
                            (\A b \in 1..Len(pend) : pend[b].id # raw_data[j].id)
                                => raw_data[i].date_modified <= raw_data[j].date_modified

\* C8 as stated: get_unprocessed_preprints returns exactly the raw rows
\* without a parent row, oldest date_modified first, and with a limit exactly
\* the first limit rows of that order, for every limit.
C8_AnyLimit == ReturnsOldestUnprocessed({NULL} \cup (0..MaxLimit))

\* C8 amended: get_unprocessed_preprints returns exactly the raw rows without
\* a parent row, oldest date_modified first, and with a limit of at least 1
\* exactly the first limit rows of that order.
C8_PositiveLimit == ReturnsOldestUnprocessed({NULL} \cup (1..MaxLimit))

\* limit 1 over two unprocessed rows, the older of them stored second
C8_Witness ==
    /\ ingest.pc = "query"
    /\ ingest.limit = 1
    /\ Cardinality(Unprocessed) = 2
    /\ Len(ingest.pending) = 1
    /\ ingest.pending[1].id = raw_data[2].id
    /\ raw_data[2].date_modified < raw_data[1].date_modified

\* process_all_new_preprints(limit=None) from the tables n0, run to its return
RECURSIVE RunLoop(_, _, _)
RunLoop(n, pend, success) ==
    IF pend = << >> THEN [norm |-> n, success |-> success]
    ELSE LET res == process_preprint(n, Head(pend).id, Head(pend).payload)
         IN  RunLoop(res.norm, Tail(pend), success + (IF res.ok THEN 1 ELSE 0))

UninterruptedRun(n0) ==
    LET r == RunLoop(n0, get_unprocessed_preprints(raw_data, n0.preprints, NULL), 0)
    IN  IF r.success > 0 THEN Reconcile(r.norm) ELSE r.norm

\* C9: after process_all_new_preprints is interrupted, every raw row without a
\* committed parent row is pending, and when a later run has returned the
\* normalized tables are those of one uninterrupted run.
C9_InterruptedThenRerun ==
    /\ ingest.pc = "crashed" =>
          \A i \in Unprocessed :
              \E a \in 1..Len(get_unprocessed_preprints(raw_data, norm.preprints, NULL)) :
                  get_unprocessed_preprints(raw_data, norm.preprints, NULL)[a].id
                      = raw_data[i].id
    /\ (ingest.pc = "done" /\ hist.rerun) => norm = UninterruptedRun(hist.run_base)

\* C10: when the subjects of a record raise in process_preprint, its tags and
\* contributors are stored all the same and the record is not counted failed.
C10_SubEntityFailureIsolated ==
    (ingest.pc = "loop" /\ ingest.last.kind = "badsubject") =>
        /\ ingest.last.ok
        /\ \E r \in norm.preprint_tags : r.preprint_id = ingest.last.id
        /\ \E r \in norm.preprint_contributors : r.preprint_id = ingest.last.id

\* the two payloads of one base identity, version 2 modified after version 1
TwoVersionsSeeded ==
    /\ Len(raw_data) = 2
    /\ \E i, j \in 1..2 :
          /\ raw_data[i].id = <<"a", "_", "v", "1">>
          /\ raw_data[j].id = <<"a", "_", "v", "2">>
          /\ raw_data[i].date_modified < raw_data[j].date_modified
    /\ \A i \in 1..2 : raw_data[i].payload.attributes.kind \in {"plain", "full"}

\* process_all_new_preprints(limit=None) has returned, having started from
\* empty normalized tables
FirstFullRunDone ==
    /\ ingest.pc = "done"
    /\ hist.unlimited
    /\ ~hist.rerun
    /\ hist.run_base = EmptyNorm

C17_ReconcilerAfterBatch ==
    /\ ingest.passes # << >> => ingest.idx > Len(ingest.pending)
    /\ ingest.pc = "done" =>
          ingest.passes = IF ingest.success > 0
                          THEN <<"fix_latest_version_flags",
                                 "fix_contributor_latest_version_flags">>
                          ELSE << >>

\* a batch of one success and one failure has returned
C17_Witness ==
    /\ ingest.pc = "done"
    /\ ingest.success = 1
    /\ ingest.errors = 1
    /\ Len(ingest.passes) = 2

\* a batch of failures only has returned
C17_WitnessNoSuccess ==
    /\ ingest.pc = "done"
    /\ ingest.processed > 0
    /\ ingest.success = 0

(***************************************************************************)
(* Properties of the gap filler                                            *)
(***************************************************************************)
JustFilled == tool.name = "fix_gaps" /\ tool.idx > 1
JustDetected == tool.name = "fix_gaps" /\ tool.idx = 1

InGap(dm, f) == f.t1 < dm /\ dm <= f.t2

\* C12: after fill_gap on a gap (t1, t2), every upstream document that has an
\* id and t1 < date_modified <= t2 is in raw_data, every row the fill added
\* has its date_modified in that range, and the same fill run again adds no
\* row.
C12_GapFillConverges ==
    JustFilled =>
        LET f == tool.last
            again == fill_gap(raw_data, <<f.t1, f.t2>>)
        IN  /\ \A i \in 1..Len(upstream) :
                  (upstream[i].id # NoId
                    /\ InGap(upstream[i].attributes.date_modified, f))
                  => upstream[i].id \in RawIds(raw_data)
            /\ \A i \in 1..Len(raw_data) :
                  raw_data[i].id \notin f.before => InGap(raw_data[i].date_modified, f)
            /\ Len(again.raw) = Len(raw_data)
            /\ RawIds(again.raw) = RawIds(raw_data)

\* the documents the server holds for the range request, in its order
RangeDocs(f) == FilterGt(upstream, f.start)
LateDocs(f) ==
    {k \in 1..Len(RangeDocs(f)) : RangeDocs(f)[k].attributes.date_modified > f.end}
FirstLate(f) == CHOOSE k \in LateDocs(f) : \A j \in LateDocs(f) : k <= j
PagesOf(n) == IF n = 0 THEN 1 ELSE ((n - 1) \div PageSize) + 1

\* C13: harvest_date_range(start, end) saves no document later than end; it
\* saves the documents with an id that come before the first document later
\* than end and nothing else, and its last request is the one for the page
\* that holds that document, whether or not more pages follow.
C13_StopsAtEnd ==
    JustFilled =>
        LET f == tool.last
            m == RangeDocs(f)
            WithId(d) == d.id # NoId
        IN  /\ \A k \in 1..Len(f.saved) : f.saved[k].attributes.date_modified <= f.end
            /\ IF LateDocs(f) = {}
               THEN /\ f.saved = SelectSeq(m, WithId)
                    /\ f.requests = PagesOf(Len(m))
                    /\ ~f.stop
               ELSE /\ f.saved = SelectSeq(SubSeq(m, 1, FirstLate(f) - 1), WithId)
                    /\ f.requests = PagesOf(FirstLate(f))
                    /\ f.stop

\* the range harvest stopped on a page that carried a next link, after a save
C13_Witness ==
    /\ JustFilled
    /\ tool.last.stop
    /\ tool.last.saved # << >>
    /\ Len(RangeDocs(tool.last)) > tool.last.requests * PageSize

BothPassesRun ==
    tool.name = "fix_version_flags" /\ tool.pc = "done" /\ tool.passes = 2

\* C15: when the two passes are run a second time, the tables being as the
\* first run left them, fix_latest_version_flags returns 0,
\* fix_contributor_latest_version_flags returns 0, and no row of preprints
\* or preprint_contributors is changed.
C15_PassesIdempotent ==
    (BothPassesRun /\ tool.applied >= 2) =>
        /\ tool.preprints_fixed = 0
        /\ tool.contributors_fixed = 0
        /\ tool.updates = {}
        /\ norm = tool.before

\* a second run, after a first one that changed rows of both tables
C15_Witness ==
    /\ BothPassesRun
    /\ tool.applied = 2
    /\ \E i \in 1..Len(norm.preprints) : norm.preprints[i].is_latest_version = 0
    /\ \E r \in norm.preprint_contributors : r.is_latest_version = 0

\* fix_latest_version_flags has just run
ParentsJustFixed == tool.name = "fix_version_flags" /\ tool.pc = "fix_contributors"

\* C16: fix_latest_version_flags writes the parent rows whose stored
\* is_latest_version differs from the computed flag and no other row, sets
\* is_latest_version of each row it writes to the computed flag and changes
\* no other column, and returns the number of rows it wrote.
C16_MinimalDiff ==
    ParentsJustFixed =>
        LET b == tool.before.preprints
            p == norm.preprints
        IN  /\ Len(p) = Len(b)
            /\ \A i \in 1..Len(b) :
                  /\ (b[i].id \in tool.updates)
                        <=> (b[i].is_latest_version # ShouldBeLatest(b, i))
                  /\ b[i].id \notin tool.updates => p[i] = b[i]
                  /\ b[i].id \in tool.updates =>
                        p[i] = [b[i] EXCEPT !.is_latest_version = ShouldBeLatest(b, i)]
            /\ tool.preprints_fixed = Cardinality(tool.updates)
            /\ [norm EXCEPT !.preprints = b] = tool.before

\* a run that wrote one row of a table of three and left two as they were
C16_Witness ==
    /\ ParentsJustFixed
    /\ Len(norm.preprints) = 3
    /\ tool.preprints_fixed = 1
    /\ Cardinality(tool.updates) = 1

(***************************************************************************)
(* Properties of the view builder                                          *)
(***************************************************************************)
\* an incremental populate_preprints_ui has just chosen the ids to process
IncrementalJustStarted ==
    /\ tool.name = "populate_preprints_ui"
    /\ ~tool.full_rebuild
    /\ tool.i = 0

\* parents whose date_modified is strictly later than the last_updated of
\* their view row
StaleParents ==
    {norm.preprints[i].id :
        i \in {k \in 1..Len(norm.preprints) :
                  \E u \in preprints_ui :
                     /\ u.id = norm.preprints[k].id
                     /\ norm.preprints[k].date_modified > u.last_updated}}

\* C18: an incremental populate_preprints_ui processes, once each, exactly
\* the parent ids without a view row and the parent ids whose date_modified
\* is strictly later than their view row's last_updated.
C18_IncrementalSelection ==
    IncrementalJustStarted =>
        /\ \A i, j \in 1..Len(tool.preprint_ids) :
              tool.preprint_ids[i] = tool.preprint_ids[j] => i = j
        /\ {tool.preprint_ids[i] : i \in 1..Len(tool.preprint_ids)}
              = NewPreprintIds(norm.preprints, preprints_ui) \cup StaleParents

\* C19: an incremental populate_preprints_ui that directly follows a run
\* in which every batch was stored, the parent table not written in
\* between, has no id to process and returns 0.
C19_NothingAfterCleanRun ==
    (IncrementalJustStarted /\ tool.after_clean) =>
        /\ tool.preprint_ids = << >>
        /\ tool.ret = 0

(***************************************************************************)
(* Properties of the failure handling of harvest_preprints                 *)
(***************************************************************************)
\* a request has just failed, the failure not being a not-found response
OrdinaryFailure ==
    /\ harvest.pc = "loop"
    /\ harvest'.failures = harvest.failures + 1
    /\ ~harvest'.not_found

\* C20: when a page request of harvest_preprints fails and the failure is
\* not a not-found response, the run goes on: the next request goes to the
\* same URL, raw_data keeps its rows, and saved_count is unchanged.
C20_RetrySameUrl ==
    [][OrdinaryFailure =>
          /\ harvest'.pc = "loop"
          /\ LoopCondition'
          /\ harvest'.url = harvest.url
          /\ raw_data' = raw_data
          /\ harvest'.saved_count = harvest.saved_count]_vars

\* a request has just failed with a not-found response
NotFoundFailure ==
    /\ harvest.pc = "loop"
    /\ harvest'.failures = harvest.failures + 1
    /\ harvest'.not_found

\* six hours, in ticks
SixHours == StepBackSeconds * TicksPerSecond

\* C21 as stated: after a not-found failure of a request that carries a
\* timestamp filter, the run goes on and the next request is the first page
\* for a filter exactly six hours earlier than the failed one; without a
\* filter the same URL is retried.
C21_StepBackExactlySixHours ==
    [][NotFoundFailure =>
          /\ harvest'.pc = "loop"
          /\ LoopCondition'
          /\ raw_data' = raw_data
          /\ IF harvest.url.gt # NULL
             THEN harvest'.url = [gt |-> harvest.url.gt - SixHours, page |-> 1]
             ELSE harvest'.url = harvest.url]_vars

\* C21, amended: after a not-found failure of a request that carries a
\* timestamp filter, the run goes on and the next request is the first page
\* for the failed filter with its fractional seconds dropped, minus six
\* hours (so exactly six hours earlier from the second consecutive not-found
\* on); without a filter the same URL is retried.
C21_StepBackWholeSeconds ==
    [][NotFoundFailure =>
          /\ harvest'.pc = "loop"
          /\ LoopCondition'
          /\ raw_data' = raw_data
          /\ harvest'.saved_count = harvest.saved_count
          /\ IF harvest.url.gt # NULL
             THEN /\ harvest'.url = [gt |-> StripFraction(harvest.url.gt) - SixHours,
                                     page |-> 1]
                  /\ harvest'.from_date = harvest'.url.gt
             ELSE /\ harvest'.url = harvest.url
                  /\ harvest'.from_date = NULL]_vars

\* one page saved, then two failures in a row, the last a not-found, the
\* first for a filter with fractional seconds: the filter is twelve hours
\* before the whole second of the first
C21_Witness ==
    /\ harvest.pc = "loop"
    /\ harvest.not_found
    /\ harvest.failures = 2
    /\ harvest.requests = 3
    /\ \E i \in 1..Len(hist.last_saved) :
          LET dm == hist.last_saved[i].attributes.date_modified
          IN  /\ dm % TicksPerSecond # 0
              /\ harvest.url = [gt |-> StripFraction(dm) - 2 * SixHours, page |-> 1]

\* a not-found failure of a request without a timestamp filter
C21_WitnessNoFilter ==
    /\ harvest.pc = "loop"
    /\ harvest.not_found
    /\ harvest.failures > 0
    /\ harvest.from_date = NULL
    /\ harvest.url = [gt |-> NULL, page |-> 1]

\* C22: every invocation of harvest_preprints eventually returns, whatever
\* the remote source answers.
C22_HarvestReturns == (harvest.pc = "loop") ~> (harvest.pc = "done")

(***************************************************************************)
(* Properties of the limit and of the value harvest_preprints returns      *)
(***************************************************************************)
\* C23: with a limit L >= 1 a run of harvest_preprints never has processed
\* more than L documents, sends no request once L documents are processed,
\* and returns at most L; a run without limit returns only when the last
\* response had no next page.
C23_LimitRespected ==
    /\ [](harvest.pc \in {"loop", "done"} =>
            /\ harvest.limit # NULL =>
                  /\ harvest.limit >= 1
                  /\ harvest.preprint_count <= harvest.limit
            /\ (harvest.pc = "done" /\ harvest.limit # NULL) =>
                  harvest.ret <= harvest.limit
            /\ (harvest.pc = "done" /\ harvest.limit = NULL) =>
                  harvest.url = NoUrl)
    /\ [][(/\ harvest.pc = "loop"
           /\ harvest.limit # NULL
           /\ harvest.preprint_count >= harvest.limit)
          => /\ harvest'.pc = "done"
             /\ harvest'.requests = harvest.requests
             /\ raw_data' = raw_data]_vars

\* a run with limit 1 has returned after one request, a second document of
\* the same page and a further page left unprocessed
C23_Witness ==
    /\ harvest.pc = "done"
    /\ harvest.limit = 1
    /\ harvest.preprint_count = 1
    /\ harvest.requests = 1
    /\ harvest.url # NoUrl
    /\ Len(upstream) > PageSize

\* a request of harvest_preprints has just succeeded and its page is processed
FetchStep ==
    /\ harvest.pc = "loop"
    /\ harvest'.pc = "loop"
    /\ harvest'.requests = harvest.requests + 1
    /\ harvest'.failures = harvest.failures

\* the documents of the page that were encountered before the loop over the
\* page ended
Encountered == harvest'.preprint_count - harvest.preprint_count

\* a document that save_preprint stores: it has an id and its upsert does not
\* raise
Savable(doc) == doc.id # NoId /\ doc.attributes.kind = "plain"

SavedOfPage(page, k) == {i \in 1..k : Savable(page[i])}

\* C24: harvest_preprints returns the number of documents whose save
\* succeeded in the run.  Every document of a page up to the limit counts as
\* encountered; only a document with an id whose save does not raise counts
\* as saved and gets a row; a document without an id or whose save raises
\* adds no row and does not become the timestamp of the next request.
C24_ReturnsSavedCount ==
    /\ [](harvest.pc = "done" => harvest.ret = harvest.saved_count)
    /\ [](harvest.pc = "loop" /\ harvest.requests = 0 => harvest.saved_count = 0)
    /\ [][FetchStep =>
            LET page == ResponseData(harvest.url)
                k == Encountered
                saved == SavedOfPage(page, k)
            IN  /\ k = IF harvest.limit = NULL THEN Len(page)
                       ELSE Min(Len(page), harvest.limit - harvest.preprint_count)
                /\ harvest'.saved_count = harvest.saved_count + Cardinality(saved)
                /\ RawIds(raw_data') = RawIds(raw_data) \cup {page[i].id : i \in saved}
                /\ \A j \in 1..Len(raw_data') :
                      \/ \E i \in saved : raw_data'[j] = RawRow(page[i], now)
                      \/ \E i \in 1..Len(raw_data) : raw_data'[j] = raw_data[i]
                /\ harvest'.from_date =
                      IF saved = {} THEN harvest.from_date
                      ELSE page[SetMax(saved)].attributes.date_modified]_vars
    /\ [][harvest'.saved_count # harvest.saved_count =>
            (FetchStep \/ (harvest'.pc = "loop" /\ harvest'.requests = 0))]_vars

\* a run has returned 1 after encountering three documents: one saved, one
\* without an id, one whose save raised
C24_Witness ==
    /\ harvest.pc = "done"
    /\ harvest.preprint_count = 3
    /\ harvest.ret = 1
    /\ Len(raw_data) = 1
    /\ \E i \in 1..Len(upstream) : upstream[i].id = NoId
    /\ \E i \in 1..Len(upstream) : upstream[i].attributes.kind = "unsavable"

(***************************************************************************)
(* Properties of the batch loop of process_all_new_preprints               *)
(***************************************************************************)
\* the for loop of process_all_new_preprints has ended
BatchLoopEnded ==
    \/ ingest.pc \in {"fix1", "fix2"}
    \/ ingest.pc = "done" /\ ingest.pending # << >>

\* C25: whatever records of the batch fail, the loop of
\* process_all_new_preprints goes through every record selected for the
\* run once, in pending order, counts each as a success or as an error, and
\* the call returns its counts.
C25_FailureDoesNotStopBatch ==
    /\ ingest.pc = "loop" =>
          /\ ingest.idx = Len(ingest.attempted) + 1
          /\ ingest.attempted =
                [i \in 1..Len(ingest.attempted) |-> ingest.pending[i].id]
    /\ BatchLoopEnded =>
          /\ ingest.attempted = [i \in 1..Len(ingest.pending) |-> ingest.pending[i].id]
          /\ ingest.success + ingest.errors = Len(ingest.pending)
    /\ ingest.pc = "done" => ingest.ret # NoRet

\* a batch of three whose first record has no payload, whose second is not
\* JSON and whose third was stored has returned
C25_Witness ==
    /\ ingest.pc = "done"
    /\ Len(ingest.pending) = 3
    /\ ingest.pending[1].payload.attributes.kind = "nopayload"
    /\ ingest.pending[2].payload.attributes.kind = "badjson"
    /\ ingest.pending[3].payload.attributes.kind = "full"
    /\ ingest.success = 1
    /\ ingest.errors = 2

(***************************************************************************)
(* Properties of the tag extraction                                        *)
(***************************************************************************)
\* the tag lists of the raw records that have a parent row
ProcessedTagLists ==
    {TagsOf(raw_data[i].payload.attributes) :
        i \in {j \in 1..Len(raw_data) :
                  \E k \in 1..Len(norm.preprints) :
                      norm.preprints[k].id = raw_data[j].id}}

\* the comma- or semicolon-separated, trimmed, non-empty pieces of the lists
PiecesOf(lists) ==
    {p \in UNION {{AllPieces(l)[i] : i \in 1..Len(AllPieces(l))} : l \in lists} : TRUE}

StoredTagTexts == {x.tag_text : x \in norm.tags}

TagTextsUnique == \A x, y \in norm.tags : x.tag_text = y.tag_text => x = y

TagTextsLowerTrimmed ==
    \A x \in norm.tags :
        LowerStr(x.tag_text) = x.tag_text /\ Strip(x.tag_text) = x.tag_text

ExampleYieldsTwoTags ==
    (Len(raw_data) = 1 /\ ProcessedTagLists = {ExampleTags}) =>
        StoredTagTexts = {<<"n", "e", "u", "r", "o", "s", "c", "i", "e", "n", "c", "e">>, <<"o", "p", "e", "n", " ", "s", "c", "i", "e", "n", "c", "e">>}

\* C26 as stated: the stored tags are the lower-cased forms of the pieces
C26_KeyedByLowerCase ==
    /\ StoredTagTexts = {LowerStr(p) : p \in PiecesOf(ProcessedTagLists)}
    /\ TagTextsUnique
    /\ TagTextsLowerTrimmed
    /\ ExampleYieldsTwoTags

\* C26: the tags table holds one row for each distinct piece of the processed
\* tag lists (split at commas and semicolons, trimmed, non-empty), keyed by
\* the piece lower-cased with every run of whitespace inside it collapsed to
\* one space; no two rows share a tag_text, every tag_text is lower-case
\* and trimmed, and the example list yields neuroscience and open science.
C26_KeyedByNormalizedText ==
    /\ StoredTagTexts = {CollapseSpaces(LowerStr(p)) : p \in PiecesOf(ProcessedTagLists)}
    /\ TagTextsUnique
    /\ TagTextsLowerTrimmed
    /\ ExampleYieldsTwoTags

\* the example list has been processed as the only record
C26_Witness ==
    /\ ingest.pc = "done"
    /\ Len(raw_data) = 1
    /\ ProcessedTagLists = {ExampleTags}
    /\ Cardinality(norm.tags) = 2

\* a record whose tag has a run of spaces inside it has been processed
C26_WitnessSpaced ==
    /\ ingest.pc = "done"
    /\ \E l \in ProcessedTagLists : l = <<SpacedTag>>
    /\ <<"a", " ", "a">> \in StoredTagTexts

\* the raw records that have a parent row and carry the tag text
RecordsCarrying(text) ==
    {j \in 1..Len(raw_data) :
        /\ \E k \in 1..Len(norm.preprints) : norm.preprints[k].id = raw_data[j].id
        /\ \E i \in 1..Len(AllPieces(TagsOf(raw_data[j].payload.attributes))) :
              normalize_tag_text(AllPieces(TagsOf(raw_data[j].payload.attributes))[i]) = text}

\* C27: the use_count of every tag is the number of distinct processed
\* records that carry the tag, whatever variants of it a record's list holds
\* and however often a record is processed.
C27_UseCountIsRecordCount ==
    \A x \in norm.tags : x.use_count = Cardinality(RecordsCarrying(x.tag_text))

(***************************************************************************)
(* Properties of the contributor extraction                                *)
(***************************************************************************)
\* the identifier of a contributor entry: the one of the primary
\* relationship link, and the one of the embedded user object when the
\* primary yields none
PrimaryThenEmbedded(contrib) ==
    IF contrib.rel # NoUser THEN contrib.rel ELSE contrib.embed

\* the raw record has been attempted by the batch loop
Attempted(j) ==
    \E k \in 1..Len(ingest.attempted) : ingest.attempted[k] = raw_data[j].id

\* C29: every attempted record has its parent row, and its relationship rows
\* name exactly the identifiers of its contributor entries, each taken from
\* the primary relationship link and, when that yields none, from the
\* embedded user object; entries with neither are skipped.
C29_PrimaryThenEmbeddedId ==
    \A j \in 1..Len(raw_data) :
        Attempted(j) =>
            /\ \E k \in 1..Len(norm.preprints) : norm.preprints[k].id = raw_data[j].id
            /\ {r.osf_user_id : r \in {x \in norm.preprint_contributors :
                                          x.preprint_id = raw_data[j].id}}
                 = {PrimaryThenEmbedded(ContributorsOf(raw_data[j].payload.attributes)[i]) :
                      i \in 1..Len(ContributorsOf(raw_data[j].payload.attributes))}
                   \ {NoUser}

(***************************************************************************)
(* Properties of the base identity the reconciler groups by                *)
(***************************************************************************)
\* the parent rows the last pass of fix_latest_version_flags grouped
GroupedRows ==
    IF tool.name = "fix_version_flags"
    THEN IF tool.pc = "fix_contributors" THEN tool.before.preprints ELSE << >>
    ELSE << >>

\* C28: the base identity by which fix_latest_version_flags groups a row is
\* the id up to its first "_v", or the whole id when it has no "_v", and two
\* rows are in one group only when these base identities are equal.
C28_GroupsByBaseIdentity ==
    \A i, j \in 1..Len(GroupedRows) :
        /\ SqlBaseId(GroupedRows[i].id) = BaseIdentity(GroupedRows[i].id)
        /\ SqlBaseId(GroupedRows[i].id) = SqlBaseId(GroupedRows[j].id)
              => BaseIdentity(GroupedRows[i].id) = BaseIdentity(GroupedRows[j].id)

(***************************************************************************)
(* Properties of the batches of populate_preprints_ui                      *)
(***************************************************************************)
\* populate_preprints_ui is between two batches or has returned
InPopulate == tool.name = "populate_preprints_ui"

\* a step that is one iteration of the batch loop
BatchStep ==
    /\ InPopulate
    /\ IF InPopulate THEN tool.pc = "batches" ELSE FALSE
    /\ tool'.i = tool.i + BatchSize

InDryRun == tool.name = "fix_gaps_dry_run"

\* the gap the last dry-run fill_gap looked at
DryGap == tool.gaps[tool.idx - 1]

\* the documents of the first page of the request of the last dry-run fill_gap
FirstPage == ResponseData(build_api_url(StripFraction(DryGap[1])))

\* C31: fill_gap with dry_run leaves raw_data as it was, whether its request
\* fails or not; it makes one request, for the first page after the start of
\* the gap, and counts the documents of that page whose date_modified lies
\* between the two ends of the gap.
C31_DryRunPersistsNothing ==
    /\ [][(InDryRun \/ InDryRun') => raw_data' = raw_data]_vars
    /\ [](IF InDryRun
          THEN IF tool.idx > 1
               THEN /\ tool.requests = 1
                    /\ tool.url = [gt |-> StripFraction(DryGap[1]), page |-> 1]
                    /\ ~tool.failed =>
                          tool.total_count =
                              Cardinality({i \in 1..Len(FirstPage) :
                                  /\ FirstPage[i].attributes.date_modified # NULL
                                  /\ DryGap[1] <= FirstPage[i].attributes.date_modified
                                  /\ FirstPage[i].attributes.date_modified <= DryGap[2]})
               ELSE TRUE
          ELSE TRUE)

\* a dry-run fill_gap has counted a document inside its gap and has left out
\* a document of the same page outside it
C31_Witness ==
    IF InDryRun
    THEN IF tool.idx > 1
         THEN /\ ~tool.failed
              /\ tool.total_count >= 1
              /\ tool.total_count < Len(FirstPage)
         ELSE FALSE
    ELSE FALSE

(***************************************************************************)
(* Properties of the pending set across re-harvests                        *)
(***************************************************************************)
\* C32: no record selected for a run has a parent row, and no step changes
\* the date_modified or version of a parent row that stays in the table:
\* a parent row is written from its payload only when the table has no row
\* of its id, however the raw record changes afterwards.
C32_ParentWrittenOnce ==
    /\ [](ingest.pc \in {"query", "loop"} =>
            \A i \in ingest.idx..Len(ingest.pending) :
                ~HasId(norm.preprints, ingest.pending[i].id))
    /\ [][\A k \in 1..Len(norm.preprints), m \in 1..Len(norm'.preprints) :
             norm.preprints[k].id = norm'.preprints[m].id =>
                 /\ norm'.preprints[m].date_modified = norm.preprints[k].date_modified
                 /\ norm'.preprints[m].version = norm.preprints[k].version]_vars

\* a run over the whole pending set has returned after the payload of a
\* normalized record was stored again with a later date_modified, and the
\* parent row still has the earlier one
C32_Witness ==
    /\ ingest.pc = "done"
    /\ ingest.limit = NULL
    /\ ingest.forces = 0
    /\ ingest.pending = << >>
    /\ \E i \in 1..Len(raw_data), k \in 1..Len(norm.preprints) :
          /\ raw_data[i].id = norm.preprints[k].id
          /\ raw_data[i].date_modified > norm.preprints[k].date_modified

(***************************************************************************)
(* Properties of the store init_db creates                                 *)
(***************************************************************************)
\* C33: on the tables init_db creates, a well-formed record with subjects,
\* tags and contributors is processed with success and its parent row, its
\* sub-entities and its relationship rows are stored.
C33_InitDbStoreAccepts ==
    (norm.schema = "init_db" /\ ingest.last.kind = "full") =>
        /\ ingest.last.ok
        /\ HasId(norm.preprints, ingest.last.id)
        /\ \E r \in norm.preprint_contributors : r.preprint_id = ingest.last.id
        /\ \E r \in norm.preprint_subjects : r.preprint_id = ingest.last.id
        /\ \E r \in norm.preprint_tags : r.preprint_id = ingest.last.id

(***************************************************************************)
(* Properties of the parent table when a batch has returned                *)
(***************************************************************************)
\* C34: when process_all_new_preprints has returned, every base identity of
\* the parent table has exactly one row flagged latest, and that row has
\* the greatest version of its base identity, whatever the batch counted.
C34_VersionInvariantAtReturn ==
    ingest.pc = "done" =>
        LET p == norm.preprints
        IN  \A i \in 1..Len(p) :
                \E k \in SameBase(p, i) :
                    /\ p[k].is_latest_version = 1
                    /\ \A j \in SameBase(p, i) :
                          /\ p[j].is_latest_version = 1 => j = k
                          /\ p[k].version >= p[j].version

(***************************************************************************)
(* Properties of the view after ingest, reconciliation and rebuild         *)
(***************************************************************************)
\* C35: when an incremental run of populate_preprints_ui without batch
\* failure ends, every row of the view carries the is_latest_version of its
\* parent row.
C35_ViewFlagsMatchParents ==
    [][(IF tool'.name = "populate_preprints_ui"
        THEN tool'.pc = "done" /\ ~tool'.failed /\ ~tool'.full_rebuild /\ tool' # tool
        ELSE FALSE) =>
          \A u \in preprints_ui' :
              \A k \in 1..Len(norm'.preprints) :
                  norm'.preprints[k].id = u.id =>
                      u.is_latest_version = norm'.preprints[k].is_latest_version]_vars

(***************************************************************************)
(* Properties of the counts of a batch                                     *)
(***************************************************************************)
\* C36: when a run has returned, a record it attempted has a parent row
\* exactly when the run counted it as a success; a record counted as an
\* error is still pending for the next run.
C36_ErrorsStayPending ==
    [][(ingest.pc = "loop" /\ ingest'.pc = "loop" /\ ingest'.idx = ingest.idx + 1) =>
          (HasId(norm'.preprints, ingest'.last.id) <=> ingest'.last.ok)]_vars

\* C37: the triple a run returns has processed = success + errors, and
\* processed is the number of records selected for the run.
C37_CountsAddUp ==
    (ingest.pc = "done" /\ ingest.ret # NoRet) =>
        /\ ingest.ret[1] = ingest.ret[2] + ingest.ret[3]
        /\ ingest.ret[1] = Len(ingest.pending)


(***************************************************************************)
(* Properties of a run of tools/fix_version_flags.py                       *)
(***************************************************************************)
\* C38: when a run of fix_version_flags without --dry-run has returned,
\* every base identity of the parent table has exactly one row flagged
\* latest and that row has the greatest version of its base identity,
\* whatever the flags were before the run.
C38_ToolRestoresInvariant ==
    (tool.name = "fix_version_flags" /\ tool.pc = "done" /\ ~tool.dry_run) =>
        LET p == norm.preprints
        IN  \A i \in 1..Len(p) :
                \E k \in SameBase(p, i) :
                    /\ p[k].is_latest_version = 1
                    /\ \A j \in SameBase(p, i) :
                          /\ p[j].is_latest_version = 1 => j = k
                          /\ p[k].version >= p[j].version

\* the same over parent tables whose ids all carry a literal "_v" suffix or
\* no "v" at all, where the SQL grouping and the base identity agree
C38_ToolRestoresInvariantLiteral ==
    (\A i \in 1..Len(norm.preprints) :
        SqlBaseId(norm.preprints[i].id) = BaseIdentity(norm.preprints[i].id))
        => C38_ToolRestoresInvariant

\* a run with --dry-run leaves the normalized tables as it found them
C38_DryRunChangesNothing ==
    [][(tool'.name = "fix_version_flags" /\ tool'.dry_run) => norm' = norm]_vars


(***************************************************************************)
(* Properties of the step back of the timestamp filter                     *)
(***************************************************************************)
\* C40: an iteration of the loop of harvest_preprints whose request fails
\* moves the timestamp filter only when the response was a not-found; after
\* any other failure from_date is what it was and the request URL is the
\* same.
C40_StepBackOnlyOnNotFound ==
    [][(harvest.pc = "loop" /\ harvest'.failures = harvest.failures + 1) =>
          \/ harvest'.not_found
          \/ /\ harvest'.from_date = harvest.from_date
             /\ harvest'.url = harvest.url]_vars


(***************************************************************************)
(* Termination of harvest_preprints against a source that recovers         *)
(***************************************************************************)
\* an iteration of the loop whose request was answered
AnsweredRequest ==
    /\ harvest.pc = "loop"
    /\ harvest'.pc = "loop"
    /\ harvest'.requests = harvest.requests + 1
    /\ harvest'.failures = harvest.failures

\* the iteration went on with a rebuilt URL, not with the next link
RebuiltRequest ==
    /\ AnsweredRequest
    /\ harvest'.url # NoUrl
    /\ harvest'.url.page = 1

\* the limit of the run is reached
LimitReached ==
    harvest.limit # NULL /\ harvest.preprint_count >= harvest.limit

\* C39: with a static upstream collection and requests that succeed from
\* some point on, every run of harvest_preprints returns; a rebuilt request
\* carries a filter strictly greater than the request before it; an answer
\* without next link ends the loop, and the loop ends only on such an
\* answer or at the limit.
C39_HarvestTerminates ==
    /\ (harvest.pc = "loop") ~> (harvest.pc = "done")
    /\ [][RebuiltRequest =>
             /\ harvest'.url.gt # NULL
             /\ harvest'.url.gt > harvest.url.gt]_vars
    /\ [][(AnsweredRequest /\ ResponseNext(harvest.url) = NoUrl) =>
             harvest'.url = NoUrl]_vars
    /\ [][(harvest.pc = "loop" /\ harvest'.pc = "done") =>
             (harvest.url = NoUrl \/ LimitReached)]_vars

\* a run that met a failed request and a page with a next link, rebuilt its
\* request and has returned
C39_Witness ==
    /\ harvest.pc = "done"
    /\ harvest.failures > 0
    /\ harvest.requests - harvest.failures >= 2
    /\ harvest.from_date # NULL
    /\ harvest.url = NoUrl

====
